---- MODULE Spec2Model ----
(***************************************************************************)
(* A model of the kafkajs admin client (src/admin/index.js): the retried   *)
(* administrative operations, their validation, the delete-groups fan-out  *)
(* and the offset reset through an ephemeral consumer.                     *)
(*                                                                         *)
(* op and pc are the operation and the position of the handler that is     *)
(* running.  Every await of a handler is one step of the model; the code   *)
(* between two awaits is part of the step that follows the first.  A call  *)
(* can be made before earlier ones have settled: the client then holds the *)
(* locals of the other handlers in the bag `parked`, up to MaxCalls calls  *)
(* in all, and SwitchCall turns from the running handler to one of them.   *)
(* The cluster, the brokers, the retrier (../retry), waitFor               *)
(* (../utils/waitFor) and the consumer are collaborators whose code is     *)
(* outside src/: their answers are inputs drawn from small sets.           *)
(***************************************************************************)
EXTENDS Integers, Sequences, FiniteSets, Bags, TLC

(***************************************************************************)
(* Bounds of the model.                                                    *)
(***************************************************************************)
\* `retries` of the retry policy handed to createRetry(retry).
MaxRetries == 2
\* Longest ACL array passed to createAcls.
MaxAclLen == 2
\* Brokers of the cluster, numbered 1..NumBrokers.
NumBrokers == 2
\* Consumer groups known to the model, numbered 1..MaxGroups; also the
\* longest groupIds array passed to deleteGroups.
MaxGroups == 2
\* Topic names known to the model, numbered 1..MaxTopics; also the longest
\* topics array passed to createTopics.
MaxTopics == 2
\* Turns of waitFor that fit in its maxWait.
MaxPolls == 2
\* Partitions of a topic, numbered 0..MaxPartitions-1; also the longest
\* partitions array passed to setOffsets.
MaxPartitions == 2
\* FETCH events the consumer of setOffsets emits.
MaxFetches == 2
\* Offsets of a partition log, 0..MaxOffset.
MaxOffset == 2
MaxResources == 2
\* Calls of the client in progress at a time.
MaxCalls == 3

VARIABLES
    op,         \* the admin operation of the running handler ("none": not called)
    pc,         \* position of the operation's handler
    attempt,    \* retryCount the retrier passes to the handler (0 on the first attempt)
    result,     \* the promise the call returned: pending, resolved or rejected
    ioLog,      \* calls made on the cluster and its brokers in this call, in order
    aclInput,   \* createAcls: the `acl` argument
    \* deleteGroups
    groupIds,           \* the argument
    clonedGroupIds,     \* let clonedGroupIds = groupIds.slice()
    results,            \* let results = []
    brokersPerGroups,   \* node id -> the group ids pushed for it in this attempt
    brokersPerNode,     \* the node ids that are keys of brokersPerNode
    lookupIdx,          \* position of the for loop over clonedGroupIds
    res,                \* Promise.all: node id -> the response received
    inflight,           \* broker.deleteGroups calls not answered yet
    deletedGroups,      \* cluster: the groups that have been deleted
    lookups,            \* history: what findGroupCoordinator returned in this attempt
    prevLookups,        \* history: the same for the attempt before, while lookups go on
    moved,              \* history: a lookup of this attempt differs from the one before
    sent,               \* history: the broker.deleteGroups calls of this attempt
    okAnswered,         \* history: group ids a broker answered with errorCode 0
    resent,             \* history: group ids sent again after such an answer
    \* createTopics
    topicsInput,        \* the `topics` argument
    waitForLeaders,     \* the `waitForLeaders` argument
    polls,              \* turns of waitFor so far in this attempt
    existingTopics,     \* cluster: the topics that exist
    lastCreate,         \* history: the topics of the call before, if it was a
                        \* createTopics that resolved true
    \* deleteTopics
    dtInput,            \* the `topics` argument
    dtLog,              \* the cluster and broker calls of the current attempt
    targetTopics,       \* cluster.targetTopics
    targetBefore,       \* history: cluster.targetTopics when the call was made
    unknownAnswers,     \* history: the attempts of the call in which
                        \* broker.deleteTopics answered UNKNOWN_TOPIC_OR_PARTITION
    \* setOffsets and resetOffsets
    offInput,           \* the arguments setOffsets is entered with
    earliest,           \* the `earliest` argument of resetOffsets, as given
    description,        \* description.state, "" before describeGroup
    consumerLog,        \* the calls made on the consumer, in order
    fetches,            \* FETCH events emitted
    stopsPending,       \* consumer.stop() calls not settled yet
    consumerState,      \* none, created, running, stopping, stopped, crashed
    positions,          \* consumer: the <<partition, offset>> it was last sought to
    committed,          \* group: the <<partition, offset>> the consumer committed
    settlements,        \* history: the promises of run and stop that settled, in order
    \* fetchTopicOffsets
    ftoTopic,           \* the `topic` argument
    watermarks,         \* cluster: start and end offset of each partition of the topic
    highPartitions,     \* the partitions of the from-end answer
    lowPartitions,      \* the partitions of the from-beginning answer
    offsetsReturned,    \* the array the handler returns
    clusterCalls,       \* history: calls made on the cluster in this call
    \* createPartitions
    cpInput,            \* the `topicPartitions` argument
    \* describeConfigs, alterConfigs, describeAcls, deleteAcls
    ctlInput,           \* the argument validated and sent to the controller
    \* fetchOffsets
    foInput,            \* the groupId and topic arguments
    coordinator,        \* nodeId of the coordinator resolved in the call, 0: none
    sentTo,             \* history: nodeId offsetFetch was sent to, 0: not sent
    \* getTopicMetadata
    gtmInput,           \* the `topics` option
    addedTopics,        \* history: the topics cluster.addTargetTopic was called with
    gtmPending,         \* positions in `topics` whose addTargetTopic is not answered yet
    \* listGroups
    lgNext,             \* position in the keys of cluster.brokerPool.brokers
    lgLog,              \* history: the calls listGroups made, in order
    lgResponses,        \* history: the groups each broker answered, in order
    groupsAcc,          \* the local `groups`
    brokerPool,         \* cluster.brokerPool.brokers after the refresh: its nodeIds
    \* fetchOffsets: the partitions, the request and the answer
    foPartitions,       \* the `partitions` findTopicPartitions returned
    foRequest,          \* history: the argument of coordinator.offsetFetch, <<>>: not called
    foResponse,         \* history: the `responses` of offsetFetch
    foReturned,         \* the value fetchOffsets resolved with
    \* calls that overlap
    parked,             \* the other calls of the client: a bag of the locals of the
                        \* handlers that wait at an await, or have not been called
    interleaved         \* history: this call was set aside, so that steps of another
                        \* call may have come between two of its own

commonVars == <<op, pc, attempt, result, ioLog>>
aclVars == <<aclInput>>
dgVars ==
    <<groupIds, clonedGroupIds, results, brokersPerGroups, brokersPerNode, lookupIdx,
      res, inflight, deletedGroups, lookups, prevLookups, moved, sent, okAnswered,
      resent>>

topicCallVars == <<topicsInput, waitForLeaders, polls, lastCreate>>
dtVars == <<dtInput, dtLog, targetTopics, targetBefore, unknownAnswers>>
topicVars == <<topicsInput, waitForLeaders, polls, existingTopics, lastCreate, dtVars>>

offVars == <<offInput, earliest, description, consumerLog, fetches, stopsPending,
             consumerState, positions, committed, settlements>>
runVars == <<positions, committed, settlements>>

ftoVars == <<ftoTopic, watermarks, highPartitions, lowPartitions, offsetsReturned,
             clusterCalls>>

ctlVars == <<cpInput, ctlInput>>
metaVars == <<foInput, coordinator, sentTo, gtmInput, addedTopics, gtmPending>>
lgVars == <<lgNext, lgLog, lgResponses, groupsAcc, brokerPool>>
foVars == <<foPartitions, foRequest, foResponse, foReturned>>
overlapVars == <<parked, interleaved>>

notAclVars ==
    <<dgVars, topicVars, offVars, ftoVars, ctlVars, metaVars, lgVars,
      foVars, overlapVars>>
notDgVars ==
    <<aclVars, topicVars, offVars, ftoVars, ctlVars, metaVars, lgVars,
      foVars, overlapVars>>
notTopicVars == <<aclVars, dgVars, offVars, ftoVars, ctlVars, metaVars, lgVars, foVars, overlapVars>>
notOffVars ==
    <<aclVars, dgVars, topicVars, ftoVars, ctlVars, metaVars, lgVars,
      foVars, overlapVars>>
notFtoVars ==
    <<aclVars, dgVars, topicVars, offVars, ctlVars, metaVars, lgVars,
      foVars, overlapVars>>
notCtlVars ==
    <<aclVars, dgVars, topicVars, offVars, ftoVars, metaVars, lgVars,
      foVars, overlapVars>>
notMetaVars ==
    <<aclVars, dgVars, topicVars, offVars, ftoVars, ctlVars, lgVars,
      foVars, overlapVars>>

notFetchOffsetsVars ==
    <<aclVars, dgVars, topicVars, offVars, ftoVars, ctlVars, lgVars, overlapVars>>

notLgVars ==
    <<aclVars, dgVars, topicVars, offVars, ftoVars, ctlVars, metaVars,
      foVars, overlapVars>>

\* The same without cluster.targetTopics, for the steps in which the handler
\* calls cluster.addTargetTopic.
topicVarsExceptTarget ==
    <<topicsInput, waitForLeaders, polls, existingTopics, lastCreate, dtInput, dtLog,
      targetBefore, unknownAnswers>>
notOffVarsExceptTarget ==
    <<aclVars, dgVars, topicVarsExceptTarget, ftoVars, ctlVars, metaVars, lgVars,
      foVars, overlapVars>>
notFtoVarsExceptTarget ==
    <<aclVars, dgVars, topicVarsExceptTarget, offVars, ctlVars, metaVars, lgVars,
      foVars, overlapVars>>
notFetchOffsetsVarsExceptTarget ==
    <<aclVars, dgVars, topicVarsExceptTarget, offVars, ftoVars, ctlVars, lgVars, overlapVars>>

vars ==
    <<commonVars, aclVars, dgVars, topicVars, offVars, ftoVars, ctlVars, metaVars, lgVars,
      foVars, overlapVars>>

(***************************************************************************)
(* Errors and promises.                                                    *)
(***************************************************************************)
\* An error object: its class, its `type` discriminator ("" when the class
\* has none), its message and, for the messages that echo an array entry,
\* the index of that entry, and the `groups` of a delete-groups error.
MkError(name, type, message, entry, groups) ==
    [name |-> name, type |-> type, message |-> message, entry |-> entry,
     groups |-> groups]

NoError == MkError("", "", "", 0, <<>>)

KafkaJSNonRetriableError(message, entry) ==
    MkError("KafkaJSNonRetriableError", "", message, entry, <<>>)

\* A protocol error thrown by a broker or by the cluster.
KafkaJSProtocolError(type) == MkError("KafkaJSProtocolError", type, type, 0, <<>>)

\* new KafkaJSDeleteGroupsError(message, groups): no `type`.
KafkaJSDeleteGroupsError(message, groups) ==
    MkError("KafkaJSDeleteGroupsError", "", message, 0, groups)

Pending == [status |-> "pending", value |-> "", error |-> NoError]
Resolved(v) == [status |-> "resolved", value |-> v, error |-> NoError]
Rejected(e) == [status |-> "rejected", value |-> "", error |-> e]

\* The `type` of the errors a cluster or broker call can fail with.
ErrorTypes ==
    {"NOT_CONTROLLER", "COORDINATOR_NOT_AVAILABLE", "UNKNOWN_TOPIC_OR_PARTITION",
     "REQUEST_TIMED_OUT"}

\* `${x}` for an argument that is not an array: undefined, or a string.
TemplateString(x) == IF x.kind = "undefined" THEN "undefined" ELSE "this-is-not-an-array"

IoEvent(call, outcome) == [call |-> call, attempt |-> attempt, outcome |-> outcome]

\* The calls of the attempt under way.  deleteGroups and fetchTopicOffsets
\* keep no more in ioLog: the first call of an attempt drops the calls of the
\* attempt before.
AttemptLog == SelectSeq(ioLog, LAMBDA e : e.attempt = attempt)

\* cluster.addTargetTopic(topic) is the call the handler makes when it comes
\* to "addTargetTopic": the cluster adds the topic to cluster.targetTopics
\* when it is called, before it awaits anything.
CallsAddTargetTopic(topic) ==
    targetTopics' = IF pc' = "addTargetTopic"
                    THEN targetTopics \cup {topic}
                    ELSE targetTopics

(***************************************************************************)
(* The retrier, createRetry(retry)(fn).                                    *)
(***************************************************************************)
\* The handler threw e: another attempt while the policy allows one, else the
\* promise is rejected with e.
RetrierCatchWrapsLastError(e, startPc) ==
    IF attempt < MaxRetries
    THEN /\ attempt' = attempt + 1
         /\ pc' = startPc
         /\ result' = result
    ELSE /\ attempt' = attempt
         /\ pc' = "done"
         /\ result' = Rejected([e EXCEPT !.name = "KafkaJSNumberOfRetriesExceeded"])

RetrierCatch(e, startPc) ==
    IF attempt < MaxRetries
    THEN /\ attempt' = attempt + 1
         /\ pc' = startPc
         /\ result' = result
    ELSE /\ attempt' = attempt
         /\ pc' = "done"
         /\ result' = Rejected(e)

\* bail(e): the promise is rejected at once and no attempt follows.
Bail(e) ==
    /\ attempt' = attempt
    /\ pc' = "done"
    /\ result' = Rejected(e)

\* The handler returned v.
RetrierResolve(v) ==
    /\ attempt' = attempt
    /\ pc' = "done"
    /\ result' = Resolved(v)

(***************************************************************************)
(* createAcls: validation.                                                 *)
(***************************************************************************)
\* Values of the protocol enumerations (Object.values of the four modules).
OPERATION_TYPES == 0..12
RESOURCE_PATTERN_TYPES == 0..4
PERMISSION_TYPES == 0..3
RESOURCE_TYPES == 0..6

\* An ACL entry.  principal, host and resourceName hold the `typeof` of the
\* value given; the enumerated fields hold the number given.
AclFields ==
    {"principal", "host", "resourceName", "operation", "resourcePatternType",
     "permissionType", "resourceType"}

AllAclEntries ==
    [principal : {"string", "number"},
     host : {"string", "number"},
     resourceName : {"string", "number"},
     operation : {2, 123},
     resourcePatternType : {3, 123},
     permissionType : {2, 123},
     resourceType : {2, 123}]

ValidAclEntry ==
    [principal |-> "string", host |-> "string", resourceName |-> "string",
     operation |-> 2, resourcePatternType |-> 3, permissionType |-> 2,
     resourceType |-> 2]

\* The entries that differ from a valid one in at most two fields.
AclEntries ==
    {e \in AllAclEntries :
        \E f1 \in AclFields, f2 \in AclFields :
            \A f \in AclFields \ {f1, f2} : e[f] = ValidAclEntry[f]}

SeqsUpTo(S, n) == UNION {[1..k -> S] : k \in 0..n}

\* The `acl` arguments: undefined, a string, or an array of entries.
AclInputs ==
    {[kind |-> k, items |-> <<>>] : k \in {"undefined", "string"}}
        \cup {[kind |-> "array", items |-> s] : s \in SeqsUpTo(AclEntries, MaxAclLen)}

\* acl.find(pred): the index of the first entry with the field outside the
\* valid set, 0 when there is none.
FindInvalid(items, field, valid) ==
    LET bad == {i \in DOMAIN items : items[i][field] \notin valid}
    IN  IF bad = {} THEN 0 ELSE CHOOSE i \in bad : \A j \in bad : i <= j

\* acl.some(({ principal }) => typeof principal !== 'string')
InvalidPrincipalFirstOnly(items) == items[1].principal # "string"
InvalidPrincipal(items) == \E i \in DOMAIN items : items[i].principal # "string"

InvalidHost(items) == \E i \in DOMAIN items : items[i].host # "string"

InvalidResourceName(items) == \E i \in DOMAIN items : items[i].resourceName # "string"

\* The error for the entry found by acl.find: the message names the value of
\* the field, and `entry` is the index of the entry the message prints.
InvalidTypeError(label, items, field, i) ==
    KafkaJSNonRetriableError(label \o ToString(items[i][field]), i)

\* The checks of createAcls in the order of the code: the error thrown, or
\* NoError when the batch passes them all.
ValidateCreateAclsPerEntry(acl) ==
    IF acl.kind # "array"
    THEN KafkaJSNonRetriableError("Invalid ACL array " \o TemplateString(acl), 0)
    ELSE IF Len(acl.items) = 0
    THEN KafkaJSNonRetriableError("Empty ACL array", 0)
    ELSE LET bad == {i \in DOMAIN acl.items : acl.items[i] # ValidAclEntry}
         IN  IF bad = {} THEN NoError
             ELSE LET i == CHOOSE k \in bad : \A j \in bad : k <= j
                      e == acl.items[i]
                  IN  IF e.principal # "string"
                      THEN KafkaJSNonRetriableError(
                               "Invalid ACL array, the principals have to be a valid string", 0)
                      ELSE IF e.host # "string"
                      THEN KafkaJSNonRetriableError(
                               "Invalid ACL array, the hosts have to be a valid string", 0)
                      ELSE IF e.resourceName # "string"
                      THEN KafkaJSNonRetriableError(
                               "Invalid ACL array, the resourceNames have to be a valid string", 0)
                      ELSE IF e.operation \notin OPERATION_TYPES
                      THEN InvalidTypeError("Invalid operation type ", acl.items, "operation", i)
                      ELSE IF e.resourcePatternType \notin RESOURCE_PATTERN_TYPES
                      THEN InvalidTypeError("Invalid resource pattern type ", acl.items, "resourcePatternType", i)
                      ELSE IF e.permissionType \notin PERMISSION_TYPES
                      THEN InvalidTypeError("Invalid permission type ", acl.items, "permissionType", i)
                      ELSE InvalidTypeError("Invalid resource type ", acl.items, "resourceType", i)

ValidateCreateAcls(acl) ==
    IF acl.kind # "array"
    THEN KafkaJSNonRetriableError("Invalid ACL array " \o TemplateString(acl), 0)
    ELSE IF Len(acl.items) = 0
    THEN KafkaJSNonRetriableError("Empty ACL array", 0)
    ELSE IF InvalidPrincipal(acl.items)
    THEN KafkaJSNonRetriableError(
             "Invalid ACL array, the principals have to be a valid string", 0)
    ELSE IF InvalidHost(acl.items)
    THEN KafkaJSNonRetriableError(
             "Invalid ACL array, the hosts have to be a valid string", 0)
    ELSE IF InvalidResourceName(acl.items)
    THEN KafkaJSNonRetriableError(
             "Invalid ACL array, the resourceNames have to be a valid string", 0)
    ELSE IF FindInvalid(acl.items, "operation", OPERATION_TYPES) # 0
    THEN InvalidTypeError(
             "Invalid operation type ", acl.items, "operation",
             FindInvalid(acl.items, "operation", OPERATION_TYPES))
    ELSE IF FindInvalid(acl.items, "resourcePatternType", RESOURCE_PATTERN_TYPES) # 0
    THEN InvalidTypeError(
             "Invalid resource pattern type ", acl.items, "resourcePatternType",
             FindInvalid(acl.items, "resourcePatternType", RESOURCE_PATTERN_TYPES))
    ELSE IF FindInvalid(acl.items, "permissionType", PERMISSION_TYPES) # 0
    THEN InvalidTypeError(
             "Invalid permission type ", acl.items, "permissionType",
             FindInvalid(acl.items, "permissionType", PERMISSION_TYPES))
    ELSE IF FindInvalid(acl.items, "resourceType", RESOURCE_TYPES) # 0
    THEN InvalidTypeError(
             "Invalid resource type ", acl.items, "resourceType",
             FindInvalid(acl.items, "resourceType", RESOURCE_TYPES))
    ELSE NoError

(***************************************************************************)
(* createAcls: the call and its attempts.                                  *)
(***************************************************************************)
Idle == pc = "idle"

\* createAcls({ acl }) up to its first await.
CreateAcls(acl) ==
    /\ Idle
    /\ op' = "createAcls"
    /\ aclInput' = acl
    /\ attempt' = 0
    /\ ioLog' = <<>>
    /\ UNCHANGED notAclVars
    /\ IF ValidateCreateAcls(acl) # NoError
       THEN /\ pc' = "done"
            /\ result' = Rejected(ValidateCreateAcls(acl))
       ELSE /\ pc' = "refresh"
            /\ result' = Pending

\* catch (e) of createAcls.
CreateAclsCatch(e) ==
    IF e.type = "NOT_CONTROLLER"
    THEN RetrierCatch(e, "refresh")
    ELSE Bail(e)

\* await cluster.refreshMetadata()
CreateAclsRefresh ==
    /\ op = "createAcls" /\ pc = "refresh"
    /\ UNCHANGED <<op, aclInput>>
    /\ UNCHANGED notAclVars
    /\ \/ /\ ioLog' = Append(ioLog, IoEvent("refreshMetadata", "ok"))
          /\ pc' = "findController"
          /\ UNCHANGED <<attempt, result>>
       \/ \E t \in ErrorTypes :
            /\ ioLog' = Append(ioLog, IoEvent("refreshMetadata", t))
            /\ CreateAclsCatch(KafkaJSProtocolError(t))

\* const broker = await cluster.findControllerBroker()
CreateAclsFindController ==
    /\ op = "createAcls" /\ pc = "findController"
    /\ UNCHANGED <<op, aclInput>>
    /\ UNCHANGED notAclVars
    /\ \/ /\ ioLog' = Append(ioLog, IoEvent("findControllerBroker", "ok"))
          /\ pc' = "request"
          /\ UNCHANGED <<attempt, result>>
       \/ \E t \in ErrorTypes :
            /\ ioLog' = Append(ioLog, IoEvent("findControllerBroker", t))
            /\ CreateAclsCatch(KafkaJSProtocolError(t))

\* await broker.createAcls({ acl }); return true
CreateAclsRequest ==
    /\ op = "createAcls" /\ pc = "request"
    /\ UNCHANGED <<op, aclInput>>
    /\ UNCHANGED notAclVars
    /\ \/ /\ ioLog' = Append(ioLog, IoEvent("broker.createAcls", "ok"))
          /\ RetrierResolve("true")
       \/ \E t \in ErrorTypes :
            /\ ioLog' = Append(ioLog, IoEvent("broker.createAcls", t))
            /\ CreateAclsCatch(KafkaJSProtocolError(t))

(***************************************************************************)
(* deleteGroups.                                                           *)
(***************************************************************************)
Nodes == 1..NumBrokers
Groups == 1..MaxGroups

\* A group id k stands for a string; NonStringGroupId stands for a value
\* whose typeof is not 'string'.
NonStringGroupId == 0

NoRepeat(s) == \A i, j \in DOMAIN s : s[i] = s[j] => i = j

\* The `groupIds` arguments: undefined, or an array of ids, no id twice.
GroupIdsInputs ==
    {[kind |-> "undefined", items |-> <<>>]}
        \cup {[kind |-> "array", items |-> s] :
                s \in {q \in SeqsUpTo(Groups \cup {NonStringGroupId}, MaxGroups) :
                          NoRepeat(q)}}

\* The checks of deleteGroups: the error thrown, or NoError.
ValidateDeleteGroups(g) ==
    IF g.kind # "array"
    THEN KafkaJSNonRetriableError("Invalid groupIds array " \o TemplateString(g), 0)
    ELSE IF \E i \in DOMAIN g.items : g.items[i] = NonStringGroupId
    THEN KafkaJSNonRetriableError("Invalid groupId name: true", 0)
    ELSE NoError

SeqToSet(s) == {s[i] : i \in DOMAIN s}

\* The arrays that hold every element of S once, in any order.
Orderings(S) ==
    {f \in [1..Cardinality(S) -> S] : \A i, j \in 1..Cardinality(S) : f[i] = f[j] => i = j}

\* The calls of Object.keys(brokersPerNode).map(...): one per key, the keys in
\* ascending order, each with the group ids pushed for that node.
RECURSIVE DeleteGroupsCallsAllIds(_, _, _, _)
DeleteGroupsCallsAllIds(perGroups, perNode, ids, n) ==
    IF n = 0 THEN <<>>
    ELSE DeleteGroupsCallsAllIds(perGroups, perNode, ids, n - 1)
            \o (IF n \in perNode THEN <<[node |-> n, groups |-> ids]>> ELSE <<>>)

RECURSIVE DeleteGroupsCalls(_, _, _, _)
DeleteGroupsCalls(perGroups, perNode, ids, n) ==
    IF n = 0 THEN <<>>
    ELSE DeleteGroupsCalls(perGroups, perNode, ids, n - 1)
            \o (IF n \in perNode
                THEN <<[node |-> n, groups |-> perGroups[n]]>>
                ELSE <<>>)

\* flatten(res.map(({ results }) => results)), res in the order of the keys.
RECURSIVE FlattenRes(_, _)
FlattenRes(r, n) ==
    IF n = 0 THEN <<>>
    ELSE FlattenRes(r, n - 1)
            \o (IF \E x \in r : x.node = n
                THEN (CHOOSE x \in r : x.node = n).results
                ELSE <<>>)

IsFailure(x) == x.errorCode # 0

\* .filter(({ errorCode }) => errorCode !== 0)
FailedResults(rs) == SelectSeq(rs, IsFailure)

\* errors.map(({ groupId }) => groupId)
GroupIdsOf(rs) == [i \in DOMAIN rs |-> rs[i].groupId]

\* A broker's response to deleteGroups(groups): errorCode 0 for the groups of
\* `ok` (deleted by this call), GROUP_ID_NOT_FOUND for a group deleted before,
\* NON_EMPTY_GROUP otherwise; one result per id asked, in the order asked.
DeleteGroupsResponse(groups, ok, deleted) ==
    [i \in DOMAIN groups |->
        [groupId |-> groups[i],
         errorCode |-> IF groups[i] \in ok THEN 0
                       ELSE IF groups[i] \in deleted THEN 69
                       ELSE 68]]

\* The errors the catch of deleteGroups throws again for the retrier.
DeleteGroupsRetriableOrAggregate(e) ==
    e.type \in {"NOT_CONTROLLER", "COORDINATOR_NOT_AVAILABLE"}
        \/ e.name = "KafkaJSDeleteGroupsError"
DeleteGroupsRetriable(e) ==
    e.type = "NOT_CONTROLLER" \/ e.type = "COORDINATOR_NOT_AVAILABLE"

\* catch (e) of deleteGroups.
DeleteGroupsCatch(e) ==
    IF DeleteGroupsRetriable(e)
    THEN RetrierCatch(e, "refresh")
    ELSE Bail(e)

\* An attempt is over: its locals are gone, and so are the calls it left in
\* flight.  What its lookups returned is kept for the next attempt to compare.
DeleteGroupsAttemptEnds ==
    /\ brokersPerGroups' = [n \in Nodes |-> <<>>]
    /\ brokersPerNode' = {}
    /\ lookupIdx' = 1
    /\ res' = {}
    /\ inflight' = {}
    /\ sent' = <<>>
    /\ lookups' = <<>>
    /\ prevLookups' = (IF pc' = "refresh" THEN lookups ELSE <<>>)
    /\ moved' = FALSE

\* deleteGroups(groupIds) up to its first await.
DeleteGroups(g) ==
    /\ Idle
    /\ op' = "deleteGroups"
    /\ groupIds' = g
    /\ attempt' = 0
    /\ ioLog' = <<>>
    /\ results' = <<>>
    /\ IF ValidateDeleteGroups(g) # NoError
       THEN /\ pc' = "done"
            /\ result' = Rejected(ValidateDeleteGroups(g))
            /\ clonedGroupIds' = <<>>
       ELSE /\ pc' = "refresh"
            /\ result' = Pending
            /\ clonedGroupIds' = g.items
    /\ UNCHANGED <<brokersPerGroups, brokersPerNode, lookupIdx, res, inflight,
                   deletedGroups, lookups, prevLookups, moved, sent, okAnswered, resent>>
    /\ UNCHANGED notDgVars

\* The start of an attempt: if (clonedGroupIds.length === 0) return [], then
\* await cluster.refreshMetadata().
DeleteGroupsRefresh ==
    /\ op = "deleteGroups" /\ pc = "refresh"
    /\ UNCHANGED <<op, groupIds, clonedGroupIds, results, deletedGroups,
                   okAnswered, resent>>
    /\ UNCHANGED notDgVars
    /\ IF clonedGroupIds = <<>>
       THEN /\ RetrierResolve("list")
            /\ DeleteGroupsAttemptEnds
            /\ UNCHANGED ioLog
       ELSE \/ /\ ioLog' = Append(AttemptLog, IoEvent("refreshMetadata", "ok"))
               /\ pc' = "findCoordinator"
               /\ UNCHANGED <<attempt, result, brokersPerGroups, brokersPerNode,
                              lookupIdx, res, inflight, lookups, prevLookups, moved,
                              sent>>
            \/ \E t \in ErrorTypes :
                /\ ioLog' = Append(AttemptLog, IoEvent("refreshMetadata", t))
                /\ DeleteGroupsCatch(KafkaJSProtocolError(t))
                /\ DeleteGroupsAttemptEnds

\* One turn of the for loop: await cluster.findGroupCoordinator({ groupId })
\* and the two assignments; after the last turn the calls of the fan-out are
\* issued and Promise.all awaits them.
DeleteGroupsFindCoordinator ==
    /\ op = "deleteGroups" /\ pc = "findCoordinator"
    /\ UNCHANGED <<op, groupIds, clonedGroupIds, results, deletedGroups,
                   okAnswered>>
    /\ UNCHANGED notDgVars
    /\ LET groupId == clonedGroupIds[lookupIdx]
       IN  \/ \E n \in Nodes :
                LET perGroups == [brokersPerGroups EXCEPT ![n] = Append(@, groupId)]
                    perNode == brokersPerNode \cup {n}
                    calls == DeleteGroupsCalls(perGroups, perNode, clonedGroupIds,
                                               NumBrokers)
                IN  /\ ioLog' = Append(AttemptLog, IoEvent("findGroupCoordinator", "ok"))
                    /\ brokersPerGroups' = perGroups
                    /\ brokersPerNode' = perNode
                    /\ lookups' = Append(lookups, <<groupId, n>>)
                    /\ moved' = (moved \/ \E i \in DOMAIN prevLookups :
                                              /\ prevLookups[i][1] = groupId
                                              /\ prevLookups[i][2] # n)
                    /\ UNCHANGED <<attempt, result, res>>
                    /\ IF lookupIdx < Len(clonedGroupIds)
                       THEN /\ lookupIdx' = lookupIdx + 1
                            /\ pc' = "findCoordinator"
                            /\ UNCHANGED <<inflight, sent, resent, prevLookups>>
                       ELSE /\ lookupIdx' = lookupIdx
                            /\ pc' = "awaitAll"
                            /\ prevLookups' = <<>>
                            /\ inflight' = SeqToSet(calls)
                            /\ sent' = calls
                            /\ resent' = resent \cup
                                  {x \in okAnswered :
                                      \E i \in DOMAIN calls : x \in SeqToSet(calls[i].groups)}
           \/ \E t \in ErrorTypes :
                /\ ioLog' = Append(AttemptLog, IoEvent("findGroupCoordinator", t))
                /\ DeleteGroupsCatch(KafkaJSProtocolError(t))
                /\ DeleteGroupsAttemptEnds
                /\ UNCHANGED resent

\* A call of the current attempt is answered while Promise.all is awaited.
\* A response is kept; with the last one the handler runs on to its return or
\* to the throw of the aggregate error.  An error rejects Promise.all at once
\* and the catch runs; the calls still in flight are abandoned: their brokers
\* may delete the groups of `late`, and nobody reads their answers.
BrokerDeleteGroupsAnswer(c) ==
    /\ op = "deleteGroups" /\ pc = "awaitAll"
    /\ c \in inflight
    /\ UNCHANGED <<op, groupIds, resent>>
    /\ UNCHANGED notDgVars
    /\ \/ \E ok \in SUBSET (SeqToSet(c.groups) \ deletedGroups) :
            LET response == [node |-> c.node,
                             results |-> DeleteGroupsResponse(c.groups, ok, deletedGroups)]
                all == res \cup {response}
                flat == FlattenRes(all, NumBrokers)
                errors == FailedResults(flat)
            IN  /\ ioLog' = Append(AttemptLog, IoEvent("broker.deleteGroups", "ok"))
                /\ deletedGroups' = deletedGroups \cup ok
                /\ okAnswered' = okAnswered \cup ok
                /\ IF {x.node : x \in all} # brokersPerNode
                   THEN /\ inflight' = inflight \ {c}
                        /\ res' = all
                        /\ UNCHANGED <<pc, attempt, result, clonedGroupIds, results,
                                       brokersPerGroups, brokersPerNode, lookupIdx,
                                       lookups, prevLookups, moved, sent>>
                   ELSE /\ clonedGroupIds' = GroupIdsOf(errors)
                        /\ IF Len(errors) > 0
                           THEN /\ DeleteGroupsCatch(
                                       KafkaJSDeleteGroupsError("Error in DeleteGroups", errors))
                                /\ results' = results
                           ELSE /\ results' = flat
                                /\ RetrierResolve("list")
                        /\ DeleteGroupsAttemptEnds
       \/ \E t \in ErrorTypes :
            \E late \in SUBSET (UNION {SeqToSet(x.groups) : x \in inflight \ {c}}
                                    \ deletedGroups) :
                /\ ioLog' = Append(AttemptLog, IoEvent("broker.deleteGroups", t))
                /\ DeleteGroupsCatch(KafkaJSProtocolError(t))
                /\ DeleteGroupsAttemptEnds
                /\ deletedGroups' = deletedGroups \cup late
                /\ UNCHANGED <<clonedGroupIds, results, okAnswered>>

(***************************************************************************)
(* createTopics.                                                           *)
(***************************************************************************)
\* A topic name k stands for a string; NonStringTopic stands for a value
\* whose typeof is not 'string'.
TopicNames == 1..MaxTopics

\* The string a topic of the model stands for, as the cluster keeps it in
\* cluster.targetTopics (a Set of strings).
TopicText(t) == "topic-" \o ToString(t)
TopicTexts(names) == {TopicText(t) : t \in names}
NonStringTopic == 0

\* Arrays of up to MaxEntries entries, long enough for two entries with the
\* same topic to have an entry between them.
MaxEntries == 3

EntriesInputs ==
    {[kind |-> "array", items |-> s] :
        s \in SeqsUpTo(TopicNames \cup {NonStringTopic}, MaxEntries)}

\* The `topics` arguments: undefined, or an array of entries, each one given
\* by its `topic` field.
TopicsInputs ==
    {[kind |-> "undefined", items |-> <<>>]}
        \cup {[kind |-> "array", items |-> s] :
                s \in SeqsUpTo(TopicNames \cup {NonStringTopic}, MaxTopics)}

\* The checks of createTopics: the error thrown, or NoError.
ValidateCreateTopicsNeighboursOnly(topics) ==
    IF topics.kind # "array"
    THEN KafkaJSNonRetriableError("Invalid topics array " \o TemplateString(topics), 0)
    ELSE IF \E i \in DOMAIN topics.items : topics.items[i] = NonStringTopic
    THEN KafkaJSNonRetriableError(
             "Invalid topics array, the topic names have to be a valid string", 0)
    ELSE IF \E i \in DOMAIN topics.items :
                i > 1 /\ topics.items[i] = topics.items[i - 1]
    THEN KafkaJSNonRetriableError(
             "Invalid topics array, it cannot have multiple entries for the same topic", 0)
    ELSE NoError

ValidateCreateTopics(topics) ==
    IF topics.kind # "array"
    THEN KafkaJSNonRetriableError("Invalid topics array " \o TemplateString(topics), 0)
    ELSE IF \E i \in DOMAIN topics.items : topics.items[i] = NonStringTopic
    THEN KafkaJSNonRetriableError(
             "Invalid topics array, the topic names have to be a valid string", 0)
    ELSE IF Cardinality(SeqToSet(topics.items)) < Len(topics.items)
    THEN KafkaJSNonRetriableError(
             "Invalid topics array, it cannot have multiple entries for the same topic", 0)
    ELSE NoError

\* The error waitFor rejects with when maxWait has passed.
KafkaJSTimeout(message) == MkError("KafkaJSTimeout", "", message, 0, <<>>)

\* The callback of retryOnLeaderNotAvailable, given the `type` of the error fn
\* threw: it returns false ("false") or throws the error again ("throw").
RetryOnLeaderNotAvailableRethrows(type) == "throw"
RetryOnLeaderNotAvailable(type) ==
    IF type # "LEADER_NOT_AVAILABLE" THEN "throw" ELSE "false"

\* The errors the catch of createTopics throws again for the retrier.
CreateTopicsRetriableOrTimeout(e) == e.type = "NOT_CONTROLLER" \/ e.name = "KafkaJSTimeout"
CreateTopicsRetriable(e) == e.type = "NOT_CONTROLLER"

\* The errors the catch of createTopics turns into `return false`.
CreateTopicsToleratesNone(e) == FALSE
CreateTopicsTolerated(e) == e.type = "TOPIC_ALREADY_EXISTS"

\* catch (e) of createTopics.
CreateTopicsCatch(e) ==
    IF CreateTopicsRetriable(e)
    THEN RetrierCatch(e, "refresh")
    ELSE IF CreateTopicsTolerated(e)
    THEN RetrierResolve("false")
    ELSE Bail(e)

\* createTopics({ topics, waitForLeaders }) up to its first await.
CreateTopics(topics, wait) ==
    /\ Idle
    /\ op' = "createTopics"
    /\ topicsInput' = topics
    /\ waitForLeaders' = wait
    /\ attempt' = 0
    /\ ioLog' = <<>>
    /\ polls' = 0
    /\ IF ValidateCreateTopics(topics) # NoError
       THEN /\ pc' = "done"
            /\ result' = Rejected(ValidateCreateTopics(topics))
       ELSE /\ pc' = "refresh"
            /\ result' = Pending
    /\ UNCHANGED <<existingTopics, lastCreate>>
    /\ UNCHANGED <<notTopicVars, dtVars>>

\* await cluster.refreshMetadata()
CreateTopicsRefresh ==
    /\ op = "createTopics" /\ pc = "refresh"
    /\ UNCHANGED <<op, topicsInput, waitForLeaders, polls, existingTopics, lastCreate>>
    /\ UNCHANGED <<notTopicVars, dtVars>>
    /\ \/ /\ ioLog' = Append(ioLog, IoEvent("refreshMetadata", "ok"))
          /\ pc' = "findController"
          /\ UNCHANGED <<attempt, result>>
       \/ \E t \in ErrorTypes :
            /\ ioLog' = Append(ioLog, IoEvent("refreshMetadata", t))
            /\ CreateTopicsCatch(KafkaJSProtocolError(t))

\* const broker = await cluster.findControllerBroker()
CreateTopicsFindController ==
    /\ op = "createTopics" /\ pc = "findController"
    /\ UNCHANGED <<op, topicsInput, waitForLeaders, polls, existingTopics, lastCreate>>
    /\ UNCHANGED <<notTopicVars, dtVars>>
    /\ \/ /\ ioLog' = Append(ioLog, IoEvent("findControllerBroker", "ok"))
          /\ pc' = "request"
          /\ UNCHANGED <<attempt, result>>
       \/ \E t \in ErrorTypes :
            /\ ioLog' = Append(ioLog, IoEvent("findControllerBroker", t))
            /\ CreateTopicsCatch(KafkaJSProtocolError(t))

\* await broker.createTopics({ topics, validateOnly, timeout }).  The broker
\* creates the topics unless one of them exists (TOPIC_ALREADY_EXISTS) or the
\* request fails.  Without waitForLeaders the handler returns true.
CreateTopicsRequest ==
    /\ op = "createTopics" /\ pc = "request"
    /\ UNCHANGED <<op, topicsInput, waitForLeaders, lastCreate>>
    /\ UNCHANGED <<notTopicVars, dtVars>>
    /\ LET names == SeqToSet(topicsInput.items)
       IN  \/ /\ names \cap existingTopics = {}
              /\ ioLog' = Append(ioLog, IoEvent("broker.createTopics", "ok"))
              /\ existingTopics' = existingTopics \cup names
              /\ polls' = 0
              /\ IF waitForLeaders
                 THEN pc' = "poll" /\ UNCHANGED <<attempt, result>>
                 ELSE RetrierResolve("true")
           \/ /\ names \cap existingTopics # {}
              /\ ioLog' = Append(ioLog, IoEvent("broker.createTopics", "TOPIC_ALREADY_EXISTS"))
              /\ CreateTopicsCatch(KafkaJSProtocolError("TOPIC_ALREADY_EXISTS"))
              /\ UNCHANGED <<existingTopics, polls>>
           \/ \E t \in ErrorTypes :
                /\ ioLog' = Append(ioLog, IoEvent("broker.createTopics", t))
                /\ CreateTopicsCatch(KafkaJSProtocolError(t))
                /\ UNCHANGED <<existingTopics, polls>>

\* One turn of waitFor: after the delay, await broker.metadata(topicNamesArray)
\* inside the callback of retryOnLeaderNotAvailable.  The metadata request
\* fails with LEADER_NOT_AVAILABLE while a partition of a topic asked for has
\* no leader, which the cluster decides.
CreateTopicsPoll ==
    /\ op = "createTopics" /\ pc = "poll"
    /\ polls < MaxPolls
    /\ UNCHANGED <<op, topicsInput, waitForLeaders, existingTopics, lastCreate>>
    /\ UNCHANGED <<notTopicVars, dtVars>>
    /\ polls' = polls + 1
    /\ \/ /\ ioLog' = Append(ioLog, IoEvent("broker.metadata", "ok"))
          /\ RetrierResolve("true")
       \/ \E t \in ErrorTypes \cup {"LEADER_NOT_AVAILABLE"} :
            /\ ioLog' = Append(ioLog, IoEvent("broker.metadata", t))
            /\ IF RetryOnLeaderNotAvailable(t) = "false"
               THEN UNCHANGED <<pc, attempt, result>>
               ELSE CreateTopicsCatch(KafkaJSProtocolError(t))

\* The timer of waitFor fires before a turn found the leaders.
CreateTopicsPollTimeout ==
    /\ op = "createTopics" /\ pc = "poll"
    /\ UNCHANGED <<op, topicsInput, waitForLeaders, polls, existingTopics, lastCreate>>
    /\ UNCHANGED <<notTopicVars, dtVars>>
    /\ ioLog' = Append(ioLog, IoEvent("waitFor", "timeout"))
    /\ CreateTopicsCatch(KafkaJSTimeout("Timed out while waiting for topic leaders"))

(***************************************************************************)
(* deleteTopics.                                                           *)
(***************************************************************************)
\* The `topics` arguments: undefined, or an array of names.
DeleteTopicsInputs ==
    {[kind |-> "undefined", items |-> <<>>]}
        \cup {[kind |-> "array", items |-> s] :
                s \in {x \in SeqsUpTo(TopicNames \cup {NonStringTopic}, MaxTopics) :
                          NoRepeat(x)}}

\* The checks of deleteTopics: the error thrown, or NoError.
ValidateDeleteTopics(topics) ==
    IF topics.kind # "array"
    THEN KafkaJSNonRetriableError("Invalid topics array " \o TemplateString(topics), 0)
    ELSE IF \E i \in DOMAIN topics.items : topics.items[i] = NonStringTopic
    THEN KafkaJSNonRetriableError(
             "Invalid topics array, the names must be a valid string", 0)
    ELSE NoError

\* The errors the catch of deleteTopics throws again for the retrier.
DeleteTopicsRetriableOnlyNotController(e) == e.type = "NOT_CONTROLLER"
DeleteTopicsRetriable(e) == e.type \in {"NOT_CONTROLLER", "UNKNOWN_TOPIC_OR_PARTITION"}

\* catch (e) of deleteTopics.
DeleteTopicsCatch(e) ==
    IF DeleteTopicsRetriable(e) THEN RetrierCatch(e, "refresh") ELSE Bail(e)

\* for (const topic of topics) cluster.targetTopics.delete(topic)
PruneEveryTargetTopic(target, names) == {}
PruneTargetTopics(target, names) == target \ names

\* A call of the attempt, with its outcome.
DtEvent(call, outcome) == [call |-> call, outcome |-> outcome]

\* The log of the attempt after a call: a new attempt starts with none.
DtLogAfter(call, outcome) ==
    dtLog' = IF pc' = "refresh" THEN <<>> ELSE Append(dtLog, DtEvent(call, outcome))

\* deleteTopics({ topics, timeout }) up to its first await.
DeleteTopics(topics) ==
    /\ Idle
    /\ op' = "deleteTopics"
    /\ dtInput' = topics
    /\ attempt' = 0
    /\ ioLog' = <<>>
    /\ dtLog' = <<>>
    /\ targetBefore' = targetTopics
    /\ unknownAnswers' = 0
    /\ IF ValidateDeleteTopics(topics) # NoError
       THEN /\ pc' = "done"
            /\ result' = Rejected(ValidateDeleteTopics(topics))
       ELSE /\ pc' = "refresh"
            /\ result' = Pending
    /\ UNCHANGED <<targetTopics, existingTopics, topicCallVars>>
    /\ UNCHANGED notTopicVars

\* await cluster.refreshMetadata()
DeleteTopicsRefresh ==
    /\ op = "deleteTopics" /\ pc = "refresh"
    /\ UNCHANGED <<op, ioLog, dtInput, targetTopics, targetBefore, existingTopics,
                   unknownAnswers, topicCallVars>>
    /\ UNCHANGED notTopicVars
    /\ \/ /\ pc' = "findController"
          /\ UNCHANGED <<attempt, result>>
          /\ DtLogAfter("refreshMetadata", "ok")
       \/ \E t \in ErrorTypes :
            /\ DeleteTopicsCatch(KafkaJSProtocolError(t))
            /\ DtLogAfter("refreshMetadata", t)

\* const broker = await cluster.findControllerBroker()
DeleteTopicsFindController ==
    /\ op = "deleteTopics" /\ pc = "findController"
    /\ UNCHANGED <<op, ioLog, dtInput, targetTopics, targetBefore, existingTopics,
                   unknownAnswers, topicCallVars>>
    /\ UNCHANGED notTopicVars
    /\ \/ /\ pc' = "request"
          /\ UNCHANGED <<attempt, result>>
          /\ DtLogAfter("findControllerBroker", "ok")
       \/ \E t \in ErrorTypes :
            /\ DeleteTopicsCatch(KafkaJSProtocolError(t))
            /\ DtLogAfter("findControllerBroker", t)

\* await broker.deleteTopics({ topics, timeout }) and, when it succeeded, the
\* removal of the topics from cluster.targetTopics.  The broker answers
\* UNKNOWN_TOPIC_OR_PARTITION when a topic does not exist.
DeleteTopicsRequest ==
    /\ op = "deleteTopics" /\ pc = "request"
    /\ UNCHANGED <<op, ioLog, dtInput, targetBefore, topicCallVars>>
    /\ UNCHANGED notTopicVars
    /\ LET names == SeqToSet(dtInput.items)
       IN  \/ /\ names \subseteq existingTopics
              /\ existingTopics' = existingTopics \ names
              /\ targetTopics' = PruneTargetTopics(targetTopics, TopicTexts(names))
              /\ pc' = "postRefresh"
              /\ UNCHANGED <<attempt, result, unknownAnswers>>
              /\ DtLogAfter("broker.deleteTopics", "ok")
           \/ \E t \in ErrorTypes :
                /\ t = "UNKNOWN_TOPIC_OR_PARTITION" => ~(names \subseteq existingTopics)
                /\ DeleteTopicsCatch(KafkaJSProtocolError(t))
                /\ DtLogAfter("broker.deleteTopics", t)
                /\ unknownAnswers' = IF t = "UNKNOWN_TOPIC_OR_PARTITION"
                                     THEN unknownAnswers + 1
                                     ELSE unknownAnswers
                /\ UNCHANGED <<existingTopics, targetTopics>>

\* await cluster.refreshMetadata() after the removal; the handler returns.
DeleteTopicsPostRefresh ==
    /\ op = "deleteTopics" /\ pc = "postRefresh"
    /\ UNCHANGED <<op, ioLog, dtInput, targetTopics, targetBefore, existingTopics,
                   unknownAnswers, topicCallVars>>
    /\ UNCHANGED notTopicVars
    /\ \/ /\ RetrierResolve("undefined")
          /\ DtLogAfter("refreshMetadata", "ok")
       \/ \E t \in ErrorTypes :
            /\ DeleteTopicsCatch(KafkaJSProtocolError(t))
            /\ DtLogAfter("refreshMetadata", t)

\* Another client creates topic t.
TopicCreatedElsewhere(t) ==
    /\ Idle
    /\ t \notin existingTopics
    /\ existingTopics' = existingTopics \cup {t}
    /\ UNCHANGED <<commonVars, dtInput, dtLog, targetTopics, targetBefore, unknownAnswers,
                   topicCallVars>>
    /\ UNCHANGED notTopicVars

\* An earlier call of the client has made t a target topic of the cluster:
\* cluster.addTargetTopic(t) of fetchOffsets, resetOffsets, fetchTopicOffsets
\* or getTopicMetadata.
AddTargetTopic(t) ==
    /\ Idle
    /\ TopicText(t) \notin targetTopics
    /\ targetTopics' = targetTopics \cup {TopicText(t)}
    /\ UNCHANGED <<commonVars, dtInput, dtLog, targetBefore, existingTopics, unknownAnswers,
                   topicCallVars>>
    /\ UNCHANGED notTopicVars

(***************************************************************************)
(* setOffsets and resetOffsets.                                            *)
(***************************************************************************)
\* Partition ids of the topic, and the offsets a caller asks for.
Partitions == 0..(MaxPartitions - 1)
SeekOffsets == {0, 1}

\* cluster.defaultOffset({ fromBeginning }): the sentinel offsets.
EarliestOffset == -2
LatestOffset == -1
DefaultOffsetLatest(fromBeginning) == LatestOffset
DefaultOffset(fromBeginning) == IF fromBeginning THEN EarliestOffset ELSE LatestOffset

\* The `earliest` argument of resetOffsets: left out, or a boolean.
EarliestArgs == {"undefined", "false", "true"}

\* earliest = false in the parameter list.
EarliestOrDefault(given) == IF given = "undefined" THEN FALSE ELSE given = "true"

\* A groupId or topic argument: the empty string is falsy.
NameArgs == {"", "name"}
\* A topic argument: the empty string, or the name of a topic.
TopicNameArgs == {"", TopicText(1)}

SeekEntries == [partition : Partitions, offset : SeekOffsets]

\* The arguments of setOffsets; `partitions` is undefined or an array.
SetOffsetsInputs ==
    [groupId : NameArgs, topic : TopicNameArgs,
     partitions : {[kind |-> "undefined", items |-> <<>>]}
                      \cup {[kind |-> "array", items |-> s] :
                              s \in SeqsUpTo(SeekEntries, MaxPartitions)}]

\* The states a group description can report.
GroupStates ==
    {"Empty", "Dead", "Stable", "PreparingRebalance", "CompletingRebalance"}

\* isConsumerGroupRunning(description): true for the states setOffsets goes
\* on with.
IsConsumerGroupRunningOrStable(state) == state \in {"Empty", "Dead", "Stable"}
isConsumerGroupRunning(state) == state \in {"Empty", "Dead"}

\* The checks resetOffsets makes, and setOffsets makes first.
ValidateGroupAndTopic(groupId, topic) ==
    IF groupId = ""
    THEN KafkaJSNonRetriableError("Invalid groupId " \o groupId, 0)
    ELSE IF topic = ""
    THEN KafkaJSNonRetriableError("Invalid topic " \o topic, 0)
    ELSE NoError

\* The checks of setOffsets.
ValidateSetOffsets(in) ==
    IF ValidateGroupAndTopic(in.groupId, in.topic) # NoError
    THEN ValidateGroupAndTopic(in.groupId, in.topic)
    ELSE IF in.partitions.kind # "array" \/ Len(in.partitions.items) = 0
    THEN KafkaJSNonRetriableError("Invalid partitions", 0)
    ELSE NoError

ConsumerCall(call, partition, offset) ==
    [call |-> call, partition |-> partition, offset |-> offset]

\* consumer.seek({ topic, ...seekData }) for every entry of `partitions`, in
\* the order of the array.
SeekCallsOfFirstEntry(items) ==
    [i \in DOMAIN items |-> ConsumerCall("seek", items[1].partition, items[1].offset)]
SeekCalls(items) ==
    [i \in DOMAIN items |-> ConsumerCall("seek", items[i].partition, items[i].offset)]

\* The calls the executor of the promise makes on the consumer, in order:
\* on(FETCH, ...), run(...), pause([{ topic }]) and the seeks.
ExecutorCalls(items) ==
    <<ConsumerCall("on", 0, 0), ConsumerCall("run", 0, 0), ConsumerCall("pause", 0, 0)>>
        \o SeekCalls(items)

\* The consumer after consumer.seek({ topic, partition, offset }) for the
\* first n entries: a later seek of a partition replaces an earlier one.
RECURSIVE ApplySeeks(_, _, _)
ApplySeeks(pos, items, n) ==
    IF n = 0 THEN pos
    ELSE {x \in ApplySeeks(pos, items, n - 1) : x[1] # items[n].partition}
             \cup {<<items[n].partition, items[n].offset>>}

\* The promise of consumer.run or of a consumer.stop settled.
Settlement(of, outcome) == [of |-> of, outcome |-> outcome]

\* setOffsets from its entry to `await consumer.subscribe(...)`.
SetOffsetsEnter(in) ==
    /\ offInput' = in
    /\ IF ValidateSetOffsets(in) # NoError
       THEN /\ pc' = "done"
            /\ result' = Rejected(ValidateSetOffsets(in))
            /\ consumerState' = "none"
       ELSE /\ pc' = "subscribe"
            /\ result' = Pending
            /\ consumerState' = "created"

\* The promise of the call settles once: a later resolve or reject is ignored.
SettleOffsets(r) ==
    IF result = Pending
    THEN pc' = "done" /\ result' = r
    ELSE UNCHANGED <<pc, result>>

\* setOffsets({ groupId, topic, partitions })
SetOffsets(in) ==
    /\ Idle
    /\ op' = "setOffsets"
    /\ SetOffsetsEnter(in)
    /\ UNCHANGED <<attempt, ioLog, earliest, description, consumerLog, fetches, stopsPending>>
    /\ UNCHANGED runVars
    /\ UNCHANGED notOffVars

\* The decimal digits of a partition id, String(n).
RECURSIVE Digits(_)
Digits(n) == IF n < 10 THEN <<n>> ELSE Digits(n \div 10) \o <<n % 10>>

\* a < b as strings, by code units.
RECURSIVE StringBefore(_, _)
StringBefore(a, b) ==
    IF a = <<>> THEN b # <<>>
    ELSE IF b = <<>> THEN FALSE
    ELSE IF Head(a) # Head(b) THEN Head(a) < Head(b)
    ELSE StringBefore(Tail(a), Tail(b))

\* cluster.findTopicPartitionMetadata(topic): the partitions of a topic of the
\* metadata, in any order; a topic has the partitions 0..(n - 1).
TopicPartitionMetadata ==
    UNION {Orderings(0..(n - 1)) : n \in 0..MaxPartitions}

\* .map(({ partitionId }) => partitionId).sort(): without a compare function
\* the ids are ordered as strings.
PartitionIdsUnsorted(metadata) == metadata

PartitionIdsSorted(metadata) ==
    CHOOSE f \in Orderings(SeqToSet(metadata)) :
        \A i, j \in DOMAIN f : i < j => StringBefore(Digits(f[i]), Digits(f[j]))

\* partitions.map(partition => ({ partition, offset: cluster.defaultOffset({
\* fromBeginning: earliest }) }))
PartitionsToSeek(partitions, given) ==
    [i \in DOMAIN partitions |->
        [partition |-> partitions[i],
         offset |-> DefaultOffset(EarliestOrDefault(given))]]

\* resetOffsets({ groupId, topic, earliest }) up to findTopicPartitions.
ResetOffsets(groupId, topic, fromStart) ==
    /\ Idle
    /\ op' = "resetOffsets"
    /\ offInput' = [groupId |-> groupId, topic |-> topic,
                    partitions |-> [kind |-> "earliest", items |-> <<>>]]
    /\ IF ValidateGroupAndTopic(groupId, topic) # NoError
       THEN /\ pc' = "done"
            /\ result' = Rejected(ValidateGroupAndTopic(groupId, topic))
       ELSE /\ pc' = "addTargetTopic"
            /\ result' = Pending
    /\ CallsAddTargetTopic(topic)
    /\ earliest' = fromStart
    /\ UNCHANGED <<attempt, ioLog, description, consumerLog, fetches, stopsPending,
                   consumerState>>
    /\ UNCHANGED runVars
    /\ UNCHANGED notOffVarsExceptTarget

\* findTopicPartitions throws: resetOffsets has no retrier and no catch, the
\* call is rejected with the error.
ResetOffsetsThrows(call, e) ==
    /\ ioLog' = Append(ioLog, IoEvent(call, e.type))
    /\ pc' = "done"
    /\ result' = Rejected(e)
    /\ UNCHANGED <<offInput, consumerState>>
    /\ UNCHANGED foVars

\* findTopicPartitions: await cluster.addTargetTopic(topic)
ResetOffsetsAddTargetTopic ==
    /\ op = "resetOffsets" /\ pc = "addTargetTopic"
    /\ UNCHANGED <<op, attempt, earliest, description, consumerLog, fetches,
                   stopsPending>>
    /\ UNCHANGED runVars
    /\ UNCHANGED <<aclVars, dgVars, topicVars, ftoVars, ctlVars, metaVars, lgVars,
                   overlapVars>>
    /\ \/ /\ ioLog' = Append(ioLog, IoEvent("addTargetTopic", "ok"))
          /\ pc' = "refreshIfNecessary"
          /\ UNCHANGED <<result, offInput, consumerState>>
          /\ UNCHANGED foVars
       \/ \E t \in ErrorTypes :
            ResetOffsetsThrows("addTargetTopic", KafkaJSProtocolError(t))

\* findTopicPartitions: await cluster.refreshMetadataIfNecessary(), then the
\* sorted partition ids of the topic; back in resetOffsets, partitionsToSeek
\* and the call of setOffsets.
ResetOffsetsRefreshIfNecessary ==
    /\ op = "resetOffsets" /\ pc = "refreshIfNecessary"
    /\ UNCHANGED <<op, attempt, earliest, description, consumerLog, fetches,
                   stopsPending>>
    /\ UNCHANGED runVars
    /\ UNCHANGED <<aclVars, dgVars, topicVars, ftoVars, ctlVars, metaVars, lgVars,
                   overlapVars>>
    /\ \/ \E outcome \in {"refreshed", "fresh"}, metadata \in TopicPartitionMetadata :
            /\ ioLog' = Append(ioLog, IoEvent("refreshMetadataIfNecessary", outcome))
            /\ foPartitions' = PartitionIdsSorted(metadata)
            /\ UNCHANGED <<foRequest, foResponse, foReturned>>
            /\ SetOffsetsEnter(
                  [groupId |-> offInput.groupId, topic |-> offInput.topic,
                   partitions |->
                      [kind |-> "array",
                       items |-> PartitionsToSeek(foPartitions', earliest)]])
       \/ \E t \in ErrorTypes :
            ResetOffsetsThrows("refreshMetadataIfNecessary", KafkaJSProtocolError(t))

\* await consumer.subscribe({ topic, fromBeginning: true })
SetOffsetsSubscribe ==
    /\ op \in {"setOffsets", "resetOffsets"} /\ pc = "subscribe"
    /\ consumerLog' = Append(consumerLog, ConsumerCall("subscribe", 0, 0))
    /\ UNCHANGED <<op, attempt, ioLog, offInput, earliest, description, fetches,
                   stopsPending, consumerState>>
    /\ UNCHANGED runVars
    /\ UNCHANGED notOffVars
    /\ \/ pc' = "describeGroup" /\ UNCHANGED result
       \/ \E t \in ErrorTypes :
            pc' = "done" /\ result' = Rejected(KafkaJSProtocolError(t))

\* const description = await consumer.describeGroup(), the check of its
\* state and, in one synchronous run, the executor of the promise: on(FETCH),
\* run, pause and a seek for each entry.
SetOffsetsDescribeGroup ==
    /\ op \in {"setOffsets", "resetOffsets"} /\ pc = "describeGroup"
    /\ UNCHANGED <<op, attempt, ioLog, offInput, earliest, fetches, stopsPending,
                   committed, settlements>>
    /\ UNCHANGED notOffVars
    /\ \/ \E state \in GroupStates :
            /\ description' = state
            /\ IF ~isConsumerGroupRunning(state)
               THEN /\ pc' = "done"
                    /\ result' = Rejected(KafkaJSNonRetriableError(
                          "The consumer group must have no running instances, current state: "
                              \o state, 0))
                    /\ consumerLog' = Append(consumerLog, ConsumerCall("describeGroup", 0, 0))
                    /\ UNCHANGED <<consumerState, positions>>
               ELSE /\ pc' = "running"
                    /\ UNCHANGED result
                    /\ consumerLog' =
                          Append(consumerLog, ConsumerCall("describeGroup", 0, 0))
                              \o ExecutorCalls(offInput.partitions.items)
                    /\ consumerState' = "running"
                    /\ positions' = ApplySeeks(positions, offInput.partitions.items,
                                               Len(offInput.partitions.items))
       \/ \E t \in ErrorTypes :
            /\ pc' = "done"
            /\ result' = Rejected(KafkaJSProtocolError(t))
            /\ consumerLog' = Append(consumerLog, ConsumerCall("describeGroup", 0, 0))
            /\ UNCHANGED <<description, consumerState, positions>>

\* The consumer emits FETCH: the listener calls consumer.stop().
ConsumerFetch ==
    /\ op \in {"setOffsets", "resetOffsets"}
    /\ consumerState \in {"running", "stopping"}
    /\ fetches < MaxFetches
    /\ fetches' = fetches + 1
    /\ consumerLog' = Append(consumerLog, ConsumerCall("stop", 0, 0))
    /\ stopsPending' = stopsPending + 1
    /\ consumerState' = "stopping"
    /\ UNCHANGED <<commonVars, offInput, earliest, description>>
    /\ UNCHANGED runVars
    /\ UNCHANGED notOffVars

\* A consumer.stop() settles: .then(resolve) or .catch(reject).
ConsumerStopSettles ==
    /\ op \in {"setOffsets", "resetOffsets"}
    /\ stopsPending > 0
    /\ stopsPending' = stopsPending - 1
    /\ UNCHANGED <<op, attempt, ioLog, offInput, earliest, description, consumerLog,
                   fetches, positions>>
    /\ UNCHANGED notOffVars
    /\ \/ /\ consumerState' = "stopped"
          /\ committed' = positions
          /\ settlements' = Append(settlements, Settlement("stop", Resolved("undefined")))
          /\ SettleOffsets(Resolved("undefined"))
       \/ \E t \in ErrorTypes :
            /\ UNCHANGED <<consumerState, committed>>
            /\ settlements' =
                  Append(settlements, Settlement("stop", Rejected(KafkaJSProtocolError(t))))
            /\ SettleOffsets(Rejected(KafkaJSProtocolError(t)))

\* The promise of consumer.run(...) rejects: .catch(reject).
ConsumerRunRejects ==
    /\ op \in {"setOffsets", "resetOffsets"}
    /\ consumerState = "running"
    /\ consumerState' = "crashed"
    /\ UNCHANGED <<op, attempt, ioLog, offInput, earliest, description, consumerLog,
                   fetches, stopsPending, positions, committed>>
    /\ UNCHANGED notOffVars
    /\ \E t \in ErrorTypes :
          /\ settlements' =
                Append(settlements, Settlement("run", Rejected(KafkaJSProtocolError(t))))
          /\ SettleOffsets(Rejected(KafkaJSProtocolError(t)))

(***************************************************************************)
(* fetchTopicOffsets.                                                      *)
(***************************************************************************)
\* A `topic` argument: its typeof and its text in a template string.
TopicArgs ==
    {[type |-> "undefined", text |-> "undefined"],
     [type |-> "number", text |-> "123"],
     [type |-> "string", text |-> ""],
     [type |-> "string", text |-> TopicText(1)]}

\* !topic || typeof topic !== 'string'
ValidateFetchTopicOffsets(topic) ==
    IF topic.type # "string" \/ topic.text = ""
    THEN KafkaJSNonRetriableError("Invalid topic " \o topic.text, 0)
    ELSE NoError

\* The logs of the partitions of a topic: for each partition id the offset
\* of its start and of its end.
Watermarks ==
    UNION {[0..(n - 1) -> {w \in (0..MaxOffset) \X (0..MaxOffset) : w[1] <= w[2]}] :
              n \in 0..MaxPartitions}

\* The logs of the same partitions at a later time: records were appended
\* (the end has moved on) and records were removed by retention or by a
\* deleteRecords request (the start has moved on), or nothing happened.
LaterWatermarks(wm) ==
    {w \in Watermarks :
        /\ DOMAIN w = DOMAIN wm
        /\ \A p \in DOMAIN wm : w[p][1] >= wm[p][1] /\ w[p][2] >= wm[p][2]}

\* The `partitions` of the answer of cluster.fetchTopicsOffset, in the order
\* the cluster gathers them.
OffsetResponses(wm, fromBeginning) ==
    Orderings({[partition |-> p,
                   offset |-> IF fromBeginning THEN wm[p][1] ELSE wm[p][2]] :
                      p \in DOMAIN wm})

\* lowPartitions.find(({ partition: lowPartition }) => lowPartition === partition)
FindLow(lows, partition) ==
    lows[CHOOSE i \in DOMAIN lows :
                     /\ lows[i].partition = partition
                     /\ \A j \in DOMAIN lows :
                           lows[j].partition = partition => i <= j]

\* highPartitions.map(({ partition, offset }) => ({ partition, offset, high, low }))
TopicOffsets(highs, lows) ==
    [i \in DOMAIN highs |->
        [partition |-> highs[i].partition,
         offset |-> highs[i].offset,
         high |-> highs[i].offset,
         low |-> FindLow(lows, highs[i].partition).offset]]

\* fetchTopicOffsets(topic) up to its first await.
FetchTopicOffsets(topic) ==
    /\ Idle
    /\ op' = "fetchTopicOffsets"
    /\ ftoTopic' = topic
    /\ attempt' = 0
    /\ ioLog' = <<>>
    /\ clusterCalls' = 0
    /\ IF ValidateFetchTopicOffsets(topic) # NoError
       THEN /\ pc' = "done"
            /\ result' = Rejected(ValidateFetchTopicOffsets(topic))
       ELSE /\ pc' = "addTargetTopic"
            /\ result' = Pending
    /\ CallsAddTargetTopic(topic.text)
    /\ UNCHANGED <<watermarks, highPartitions, lowPartitions, offsetsReturned>>
    /\ UNCHANGED notFtoVarsExceptTarget

\* catch (e) of fetchTopicOffsets: UNKNOWN_TOPIC_OR_PARTITION goes on to
\* `await cluster.refreshMetadata()`, any other error to bail(e).
FetchTopicOffsetsCatch(e) ==
    IF e.type = "UNKNOWN_TOPIC_OR_PARTITION"
    THEN pc' = "catchRefresh" /\ UNCHANGED <<attempt, result>>
    ELSE Bail(e)

\* A step of the try block that reads nothing back: the answer of
\* addTargetTopic, then of refreshMetadataIfNecessary.
FetchTopicOffsetsStep(at, next) ==
    /\ op = "fetchTopicOffsets" /\ pc = at
    /\ UNCHANGED <<op, ftoTopic, watermarks, highPartitions, lowPartitions,
                   offsetsReturned>>
    /\ UNCHANGED notFtoVars
    /\ \/ /\ ioLog' = Append(AttemptLog, IoEvent(at, "ok"))
          /\ clusterCalls' = clusterCalls + 1
          /\ pc' = next
          /\ UNCHANGED <<attempt, result>>
       \/ \E t \in ErrorTypes :
            /\ ioLog' = Append(AttemptLog, IoEvent(at, t))
            /\ clusterCalls' = clusterCalls + 1
            /\ FetchTopicOffsetsCatch(KafkaJSProtocolError(t))

FetchTopicOffsetsAddTargetTopic ==
    FetchTopicOffsetsStep("addTargetTopic", "refreshMetadataIfNecessary")

FetchTopicOffsetsRefreshIfNecessary ==
    FetchTopicOffsetsStep("refreshMetadataIfNecessary", "fetchHigh")

\* cluster.findTopicPartitionMetadata(topic) and the from-end query: the
\* cluster answers, for the partitions of the metadata, with the ends of
\* their logs as they are when it is asked.
FetchTopicOffsetsHigh ==
    /\ op = "fetchTopicOffsets" /\ pc = "fetchHigh"
    /\ UNCHANGED <<op, ftoTopic, lowPartitions, offsetsReturned>>
    /\ UNCHANGED notFtoVars
    /\ \/ \E wm \in Watermarks :
            /\ watermarks' = wm
            /\ \E high \in OffsetResponses(wm, FALSE) : highPartitions' = high
            /\ ioLog' = Append(AttemptLog, IoEvent("fetchTopicsOffset", "ok"))
            /\ clusterCalls' = clusterCalls + 1
            /\ pc' = "fetchLow"
            /\ UNCHANGED <<attempt, result>>
       \/ \E t \in ErrorTypes :
            /\ ioLog' = Append(AttemptLog, IoEvent("fetchTopicsOffset", t))
            /\ clusterCalls' = clusterCalls + 1
            /\ FetchTopicOffsetsCatch(KafkaJSProtocolError(t))
            /\ UNCHANGED <<watermarks, highPartitions>>

\* The from-beginning query for the same partitions, and the value returned.
\* It is a second request, answered after the first: the cluster answers with
\* the starts of the logs as they are by then.
FetchTopicOffsetsLow ==
    /\ op = "fetchTopicOffsets" /\ pc = "fetchLow"
    /\ UNCHANGED <<op, ftoTopic, highPartitions>>
    /\ UNCHANGED notFtoVars
    /\ \/ \E wm \in LaterWatermarks(watermarks) :
            /\ watermarks' = wm
            /\ \E low \in OffsetResponses(wm, TRUE) :
                  /\ lowPartitions' = low
                  /\ offsetsReturned' = TopicOffsets(highPartitions, low)
            /\ ioLog' = Append(AttemptLog, IoEvent("fetchTopicsOffset", "ok"))
            /\ clusterCalls' = clusterCalls + 1
            /\ RetrierResolve("list")
       \/ \E t \in ErrorTypes :
            /\ ioLog' = Append(AttemptLog, IoEvent("fetchTopicsOffset", t))
            /\ clusterCalls' = clusterCalls + 1
            /\ FetchTopicOffsetsCatch(KafkaJSProtocolError(t))
            /\ UNCHANGED <<watermarks, lowPartitions, offsetsReturned>>

\* await cluster.refreshMetadata() in the catch, then `throw e`; an error of
\* the refresh is thrown in its place.  The retrier takes the error: it
\* rejects the call, or waits ("retryWait") before it calls the handler again.
FetchTopicOffsetsCatchRefresh ==
    /\ op = "fetchTopicOffsets" /\ pc = "catchRefresh"
    /\ UNCHANGED <<op, ftoTopic, offsetsReturned>>
    /\ UNCHANGED notFtoVars
    /\ watermarks' = <<>>
    /\ highPartitions' = <<>>
    /\ lowPartitions' = <<>>
    /\ \/ /\ ioLog' = Append(AttemptLog, IoEvent("refreshMetadata", "ok"))
          /\ clusterCalls' = clusterCalls + 1
          /\ RetrierCatch(KafkaJSProtocolError("UNKNOWN_TOPIC_OR_PARTITION"),
                          "retryWait")
       \/ \E t \in ErrorTypes :
            /\ ioLog' = Append(AttemptLog, IoEvent("refreshMetadata", t))
            /\ clusterCalls' = clusterCalls + 1
            /\ RetrierCatch(KafkaJSProtocolError(t), "retryWait")

\* The wait of the retrier is over: it calls the handler again, which runs up
\* to its first await, `await cluster.addTargetTopic(topic)`.
FetchTopicOffsetsRetry ==
    /\ op = "fetchTopicOffsets" /\ pc = "retryWait"
    /\ pc' = "addTargetTopic"
    /\ CallsAddTargetTopic(ftoTopic.text)
    /\ UNCHANGED <<op, attempt, result, ioLog>>
    /\ UNCHANGED ftoVars
    /\ UNCHANGED notFtoVarsExceptTarget

(***************************************************************************)
(* createPartitions, describeConfigs, alterConfigs, describeAcls and       *)
(* deleteAcls: validation.                                                 *)
(***************************************************************************)
\* The `topicPartitions` arguments: undefined, or an array of entries, each
\* one given by its `topic` field.
TopicPartitionsInputs ==
    {[kind |-> "undefined", items |-> <<>>]}
        \cup {[kind |-> "array", items |-> s] :
                s \in SeqsUpTo(TopicNames \cup {NonStringTopic}, MaxTopics)}

\* The checks of createPartitions: the error thrown, or NoError.
ValidateCreatePartitionsAllowsRepeats(topicPartitions) ==
    IF topicPartitions.kind # "array"
    THEN KafkaJSNonRetriableError(
             "Invalid topic partitions array " \o TemplateString(topicPartitions), 0)
    ELSE IF Len(topicPartitions.items) = 0
    THEN KafkaJSNonRetriableError("Empty topic partitions array", 0)
    ELSE IF \E i \in DOMAIN topicPartitions.items : topicPartitions.items[i] = NonStringTopic
    THEN KafkaJSNonRetriableError(
             "Invalid topic partitions array, the topic names have to be a valid string", 0)
    ELSE NoError

ValidateCreatePartitions(topicPartitions) ==
    IF topicPartitions.kind # "array"
    THEN KafkaJSNonRetriableError(
             "Invalid topic partitions array " \o TemplateString(topicPartitions), 0)
    ELSE IF Len(topicPartitions.items) = 0
    THEN KafkaJSNonRetriableError("Empty topic partitions array", 0)
    ELSE IF \E i \in DOMAIN topicPartitions.items : topicPartitions.items[i] = NonStringTopic
    THEN KafkaJSNonRetriableError(
             "Invalid topic partitions array, the topic names have to be a valid string", 0)
    ELSE IF Cardinality(SeqToSet(topicPartitions.items)) < Len(topicPartitions.items)
    THEN KafkaJSNonRetriableError(
             "Invalid topic partitions array, it cannot have multiple entries for the same topic",
             0)
    ELSE NoError

\* A resource of describeConfigs or alterConfigs.  `type` is the number given;
\* `name`, `configNames` and `configEntries` hold the typeof of the value and
\* its text in a template string; a configEntries array of type "entries" has
\* string names and values, one of type "badEntries" has an entry without.
ValidResource ==
    [type |-> 2,
     name |-> [type |-> "string", text |-> "name"],
     configNames |-> [type |-> "array", text |-> "a"],
     configEntries |-> [type |-> "entries", text |-> "[object Object]"]]

ResourceFields == {"type", "name", "configNames", "configEntries"}

AllResources ==
    [type : {2, 123},
     name : {[type |-> "string", text |-> "name"],
             [type |-> "string", text |-> ""],
             [type |-> "number", text |-> "123"]},
     configNames : {[type |-> "array", text |-> "a"],
                    [type |-> "undefined", text |-> "undefined"],
                    [type |-> "string", text |-> "a"]},
     configEntries : {[type |-> "entries", text |-> "[object Object]"],
                      [type |-> "badEntries", text |-> "[object Object]"],
                      [type |-> "undefined", text |-> "undefined"]}]

\* The resources that differ from a valid one in at most one field.
Resources ==
    {r \in AllResources :
        \E f1 \in ResourceFields : \A f \in ResourceFields \ {f1} : r[f] = ValidResource[f]}

\* The `resources` arguments: undefined, or an array of resources.
ResourcesInputs ==
    {[kind |-> "undefined", items |-> <<>>]}
        \cup {[kind |-> "array", items |-> s] : s \in SeqsUpTo(Resources, MaxResources)}

\* resources.find(pred): the index of the first resource for which bad holds,
\* 0 when there is none.
FindResource(items, bad) ==
    LET found == {i \in DOMAIN items : bad[i]}
    IN  IF found = {} THEN 0 ELSE CHOOSE i \in found : \A j \in found : i <= j

\* r => !validResourceTypes.includes(r.type)
InvalidResourceType(items) == [i \in DOMAIN items |-> items[i].type \notin RESOURCE_TYPES]

\* r => !r.name || typeof r.name !== 'string'
InvalidResourceNameOf(items) ==
    [i \in DOMAIN items |-> items[i].name.text = "" \/ items[i].name.type # "string"]

\* r => !Array.isArray(r.configNames) && r.configNames != null
InvalidConfigNames(items) ==
    [i \in DOMAIN items |-> items[i].configNames.type \notin {"array", "undefined"}]

\* r => !Array.isArray(r.configEntries)
InvalidConfigEntries(items) ==
    [i \in DOMAIN items |-> items[i].configEntries.type \notin {"entries", "badEntries"}]

\* r => r.configEntries.some(e => typeof e.name !== 'string' || typeof e.value !== 'string')
InvalidConfigValue(items) ==
    [i \in DOMAIN items |-> items[i].configEntries.type = "badEntries"]

\* The checks of describeConfigs: the error thrown, or NoError.
ValidateDescribeConfigs(resources) ==
    LET items == resources.items
        byType == FindResource(items, InvalidResourceType(items))
        byName == FindResource(items, InvalidResourceNameOf(items))
        byConfigNames == FindResource(items, InvalidConfigNames(items))
    IN  IF resources.kind # "array"
        THEN KafkaJSNonRetriableError(
                 "Invalid resources array " \o TemplateString(resources), 0)
        ELSE IF Len(items) = 0
        THEN KafkaJSNonRetriableError("Resources array cannot be empty", 0)
        ELSE IF byType # 0
        THEN KafkaJSNonRetriableError(
                 "Invalid resource type " \o ToString(items[byType].type), byType)
        ELSE IF byName # 0
        THEN KafkaJSNonRetriableError(
                 "Invalid resource name " \o items[byName].name.text, byName)
        ELSE IF byConfigNames # 0
        THEN KafkaJSNonRetriableError(
                 "Invalid resource configNames " \o items[byConfigNames].configNames.text,
                 byConfigNames)
        ELSE NoError

\* The checks of alterConfigs: the error thrown, or NoError.
ValidateAlterConfigs(resources) ==
    LET items == resources.items
        byType == FindResource(items, InvalidResourceType(items))
        byName == FindResource(items, InvalidResourceNameOf(items))
        byConfigEntries == FindResource(items, InvalidConfigEntries(items))
        byConfigValue == FindResource(items, InvalidConfigValue(items))
    IN  IF resources.kind # "array"
        THEN KafkaJSNonRetriableError(
                 "Invalid resources array " \o TemplateString(resources), 0)
        ELSE IF Len(items) = 0
        THEN KafkaJSNonRetriableError("Resources array cannot be empty", 0)
        ELSE IF byType # 0
        THEN KafkaJSNonRetriableError(
                 "Invalid resource type " \o ToString(items[byType].type), byType)
        ELSE IF byName # 0
        THEN KafkaJSNonRetriableError(
                 "Invalid resource name " \o items[byName].name.text, byName)
        ELSE IF byConfigEntries # 0
        THEN KafkaJSNonRetriableError(
                 "Invalid resource configEntries "
                     \o items[byConfigEntries].configEntries.text,
                 byConfigEntries)
        ELSE IF byConfigValue # 0
        THEN KafkaJSNonRetriableError("Invalid resource config value: ", byConfigValue)
        ELSE NoError

\* An ACL filter.  principal, host and resourceName hold the typeof of the
\* value given; the enumerated fields hold the number given.  describeAcls
\* reads the pattern type from resourcePatternTypeFilter, deleteAcls from
\* resourcePatternType.
AllAclFilters ==
    [principal : {"string", "undefined", "number"},
     host : {"string", "undefined", "number"},
     resourceName : {"string", "undefined", "number"},
     operation : {2, 123},
     resourcePatternType : {3, 123},
     permissionType : {2, 123},
     resourceType : {2, 123}]

\* The filters that differ from a valid entry in at most one field.
AclFilters ==
    {e \in AllAclFilters :
        \E f1 \in AclFields : \A f \in AclFields \ {f1} : e[f] = ValidAclEntry[f]}

\* typeof x !== 'string' && typeof x !== 'undefined'
NeitherStringNorUndefined(x) == x \notin {"string", "undefined"}

\* The checks of describeAcls: the error thrown, or NoError.
ValidateDescribeAcls(filter) ==
    IF NeitherStringNorUndefined(filter.principal)
    THEN KafkaJSNonRetriableError(
             "Invalid principal, the principal have to be a valid string", 0)
    ELSE IF NeitherStringNorUndefined(filter.host)
    THEN KafkaJSNonRetriableError("Invalid host, the host have to be a valid string", 0)
    ELSE IF NeitherStringNorUndefined(filter.resourceName)
    THEN KafkaJSNonRetriableError(
             "Invalid resourceName, the resourceName have to be a valid string", 0)
    ELSE IF filter.operation \notin OPERATION_TYPES
    THEN KafkaJSNonRetriableError(
             "Invalid operation type " \o ToString(filter.operation), 0)
    ELSE IF filter.resourcePatternType \notin RESOURCE_PATTERN_TYPES
    THEN KafkaJSNonRetriableError(
             "Invalid resource pattern filter type "
                 \o ToString(filter.resourcePatternType), 0)
    ELSE IF filter.permissionType \notin PERMISSION_TYPES
    THEN KafkaJSNonRetriableError(
             "Invalid permission type " \o ToString(filter.permissionType), 0)
    ELSE IF filter.resourceType \notin RESOURCE_TYPES
    THEN KafkaJSNonRetriableError(
             "Invalid resource type " \o ToString(filter.resourceType), 0)
    ELSE NoError

\* The `filters` arguments: undefined, or an array of filters.
FiltersInputs ==
    {[kind |-> "undefined", items |-> <<>>]}
        \cup {[kind |-> "array", items |-> s] : s \in SeqsUpTo(AclFilters, MaxAclLen)}

\* The checks of deleteAcls: the error thrown, or NoError.
ValidateDeleteAcls(filters) ==
    LET items == filters.items
    IN  IF filters.kind # "array"
        THEN KafkaJSNonRetriableError(
                 "Invalid ACL Filter array " \o TemplateString(filters), 0)
        ELSE IF Len(items) = 0
        THEN KafkaJSNonRetriableError("Empty ACL Filter array", 0)
        ELSE IF \E i \in DOMAIN items : NeitherStringNorUndefined(items[i].principal)
        THEN KafkaJSNonRetriableError(
                 "Invalid ACL Filter array, the principals have to be a valid string", 0)
        ELSE IF \E i \in DOMAIN items : NeitherStringNorUndefined(items[i].host)
        THEN KafkaJSNonRetriableError(
                 "Invalid ACL Filter array, the hosts have to be a valid string", 0)
        ELSE IF \E i \in DOMAIN items : NeitherStringNorUndefined(items[i].resourceName)
        THEN KafkaJSNonRetriableError(
                 "Invalid ACL Filter array, the resourceNames have to be a valid string", 0)
        ELSE IF FindInvalid(items, "operation", OPERATION_TYPES) # 0
        THEN InvalidTypeError(
                 "Invalid operation type ", items, "operation",
                 FindInvalid(items, "operation", OPERATION_TYPES))
        ELSE IF FindInvalid(items, "resourcePatternType", RESOURCE_PATTERN_TYPES) # 0
        THEN InvalidTypeError(
                 "Invalid resource pattern type ", items, "resourcePatternType",
                 FindInvalid(items, "resourcePatternType", RESOURCE_PATTERN_TYPES))
        ELSE IF FindInvalid(items, "permissionType", PERMISSION_TYPES) # 0
        THEN InvalidTypeError(
                 "Invalid permission type ", items, "permissionType",
                 FindInvalid(items, "permissionType", PERMISSION_TYPES))
        ELSE IF FindInvalid(items, "resourceType", RESOURCE_TYPES) # 0
        THEN InvalidTypeError(
                 "Invalid resource type ", items, "resourceType",
                 FindInvalid(items, "resourceType", RESOURCE_TYPES))
        ELSE NoError

(***************************************************************************)
(* createPartitions, describeConfigs, alterConfigs, describeAcls and       *)
(* deleteAcls: the calls.                                                  *)
(***************************************************************************)
\* The errors the catch throws again for the retrier.
RetriableAlsoUnknownTopic(e) == e.type \in {"NOT_CONTROLLER", "UNKNOWN_TOPIC_OR_PARTITION"}

\* catch (e) of createPartitions.
CreatePartitionsRetriable(e) == e.type = "NOT_CONTROLLER"

CreatePartitionsCatch(e) ==
    IF CreatePartitionsRetriable(e) THEN RetrierCatch(e, "refresh") ELSE Bail(e)

\* createPartitions({ topicPartitions, validateOnly, timeout }) up to its first await.
CreatePartitions(topicPartitions) ==
    /\ Idle
    /\ op' = "createPartitions"
    /\ cpInput' = topicPartitions
    /\ UNCHANGED ctlInput
    /\ attempt' = 0
    /\ ioLog' = <<>>
    /\ UNCHANGED notCtlVars
    /\ IF ValidateCreatePartitions(topicPartitions) # NoError
       THEN /\ pc' = "done"
            /\ result' = Rejected(ValidateCreatePartitions(topicPartitions))
       ELSE /\ pc' = "refresh"
            /\ result' = Pending

\* await cluster.refreshMetadata()
CreatePartitionsRefresh ==
    /\ op = "createPartitions" /\ pc = "refresh"
    /\ UNCHANGED <<op, cpInput, ctlInput>>
    /\ UNCHANGED notCtlVars
    /\ \/ /\ ioLog' = Append(ioLog, IoEvent("refreshMetadata", "ok"))
          /\ pc' = "findController"
          /\ UNCHANGED <<attempt, result>>
       \/ \E t \in ErrorTypes :
            /\ ioLog' = Append(ioLog, IoEvent("refreshMetadata", t))
            /\ CreatePartitionsCatch(KafkaJSProtocolError(t))

\* const broker = await cluster.findControllerBroker()
CreatePartitionsFindController ==
    /\ op = "createPartitions" /\ pc = "findController"
    /\ UNCHANGED <<op, cpInput, ctlInput>>
    /\ UNCHANGED notCtlVars
    /\ \/ /\ ioLog' = Append(ioLog, IoEvent("findControllerBroker", "ok"))
          /\ pc' = "request"
          /\ UNCHANGED <<attempt, result>>
       \/ \E t \in ErrorTypes :
            /\ ioLog' = Append(ioLog, IoEvent("findControllerBroker", t))
            /\ CreatePartitionsCatch(KafkaJSProtocolError(t))

\* await broker.createPartitions({ topicPartitions, validateOnly, timeout })
CreatePartitionsRequest ==
    /\ op = "createPartitions" /\ pc = "request"
    /\ UNCHANGED <<op, cpInput, ctlInput>>
    /\ UNCHANGED notCtlVars
    /\ \/ /\ ioLog' = Append(ioLog, IoEvent("broker.createPartitions", "ok"))
          /\ RetrierResolve("undefined")
       \/ \E t \in ErrorTypes :
            /\ ioLog' = Append(ioLog, IoEvent("broker.createPartitions", t))
            /\ CreatePartitionsCatch(KafkaJSProtocolError(t))

\* catch (e) of describeConfigs.
DescribeConfigsRetriable(e) == e.type = "NOT_CONTROLLER"

DescribeConfigsCatch(e) ==
    IF DescribeConfigsRetriable(e) THEN RetrierCatch(e, "refresh") ELSE Bail(e)

\* describeConfigs({ resources, includeSynonyms }) up to its first await.
DescribeConfigs(resources) ==
    /\ Idle
    /\ op' = "describeConfigs"
    /\ ctlInput' = resources
    /\ UNCHANGED cpInput
    /\ attempt' = 0
    /\ ioLog' = <<>>
    /\ UNCHANGED notCtlVars
    /\ IF ValidateDescribeConfigs(resources) # NoError
       THEN /\ pc' = "done"
            /\ result' = Rejected(ValidateDescribeConfigs(resources))
       ELSE /\ pc' = "refresh"
            /\ result' = Pending

\* await cluster.refreshMetadata()
DescribeConfigsRefresh ==
    /\ op = "describeConfigs" /\ pc = "refresh"
    /\ UNCHANGED <<op, cpInput, ctlInput>>
    /\ UNCHANGED notCtlVars
    /\ \/ /\ ioLog' = Append(ioLog, IoEvent("refreshMetadata", "ok"))
          /\ pc' = "findController"
          /\ UNCHANGED <<attempt, result>>
       \/ \E t \in ErrorTypes :
            /\ ioLog' = Append(ioLog, IoEvent("refreshMetadata", t))
            /\ DescribeConfigsCatch(KafkaJSProtocolError(t))

\* const broker = await cluster.findControllerBroker()
DescribeConfigsFindController ==
    /\ op = "describeConfigs" /\ pc = "findController"
    /\ UNCHANGED <<op, cpInput, ctlInput>>
    /\ UNCHANGED notCtlVars
    /\ \/ /\ ioLog' = Append(ioLog, IoEvent("findControllerBroker", "ok"))
          /\ pc' = "request"
          /\ UNCHANGED <<attempt, result>>
       \/ \E t \in ErrorTypes :
            /\ ioLog' = Append(ioLog, IoEvent("findControllerBroker", t))
            /\ DescribeConfigsCatch(KafkaJSProtocolError(t))

\* return await broker.describeConfigs({ resources, includeSynonyms })
DescribeConfigsRequest ==
    /\ op = "describeConfigs" /\ pc = "request"
    /\ UNCHANGED <<op, cpInput, ctlInput>>
    /\ UNCHANGED notCtlVars
    /\ \/ /\ ioLog' = Append(ioLog, IoEvent("broker.describeConfigs", "ok"))
          /\ RetrierResolve("response")
       \/ \E t \in ErrorTypes :
            /\ ioLog' = Append(ioLog, IoEvent("broker.describeConfigs", t))
            /\ DescribeConfigsCatch(KafkaJSProtocolError(t))

\* catch (e) of alterConfigs.
AlterConfigsRetriable(e) == e.type = "NOT_CONTROLLER"

AlterConfigsCatch(e) ==
    IF AlterConfigsRetriable(e) THEN RetrierCatch(e, "refresh") ELSE Bail(e)

\* alterConfigs({ resources, validateOnly }) up to its first await.
AlterConfigs(resources) ==
    /\ Idle
    /\ op' = "alterConfigs"
    /\ ctlInput' = resources
    /\ UNCHANGED cpInput
    /\ attempt' = 0
    /\ ioLog' = <<>>
    /\ UNCHANGED notCtlVars
    /\ IF ValidateAlterConfigs(resources) # NoError
       THEN /\ pc' = "done"
            /\ result' = Rejected(ValidateAlterConfigs(resources))
       ELSE /\ pc' = "refresh"
            /\ result' = Pending

\* await cluster.refreshMetadata()
AlterConfigsRefresh ==
    /\ op = "alterConfigs" /\ pc = "refresh"
    /\ UNCHANGED <<op, cpInput, ctlInput>>
    /\ UNCHANGED notCtlVars
    /\ \/ /\ ioLog' = Append(ioLog, IoEvent("refreshMetadata", "ok"))
          /\ pc' = "findController"
          /\ UNCHANGED <<attempt, result>>
       \/ \E t \in ErrorTypes :
            /\ ioLog' = Append(ioLog, IoEvent("refreshMetadata", t))
            /\ AlterConfigsCatch(KafkaJSProtocolError(t))

\* const broker = await cluster.findControllerBroker()
AlterConfigsFindController ==
    /\ op = "alterConfigs" /\ pc = "findController"
    /\ UNCHANGED <<op, cpInput, ctlInput>>
    /\ UNCHANGED notCtlVars
    /\ \/ /\ ioLog' = Append(ioLog, IoEvent("findControllerBroker", "ok"))
          /\ pc' = "request"
          /\ UNCHANGED <<attempt, result>>
       \/ \E t \in ErrorTypes :
            /\ ioLog' = Append(ioLog, IoEvent("findControllerBroker", t))
            /\ AlterConfigsCatch(KafkaJSProtocolError(t))

\* return await broker.alterConfigs({ resources, validateOnly })
AlterConfigsRequest ==
    /\ op = "alterConfigs" /\ pc = "request"
    /\ UNCHANGED <<op, cpInput, ctlInput>>
    /\ UNCHANGED notCtlVars
    /\ \/ /\ ioLog' = Append(ioLog, IoEvent("broker.alterConfigs", "ok"))
          /\ RetrierResolve("response")
       \/ \E t \in ErrorTypes :
            /\ ioLog' = Append(ioLog, IoEvent("broker.alterConfigs", t))
            /\ AlterConfigsCatch(KafkaJSProtocolError(t))

\* catch (e) of describeAcls.
DescribeAclsRetriable(e) == e.type = "NOT_CONTROLLER"

DescribeAclsCatch(e) ==
    IF DescribeAclsRetriable(e) THEN RetrierCatch(e, "refresh") ELSE Bail(e)

\* describeAcls(filter) up to its first await.
DescribeAcls(filter) ==
    /\ Idle
    /\ op' = "describeAcls"
    /\ ctlInput' = filter
    /\ UNCHANGED cpInput
    /\ attempt' = 0
    /\ ioLog' = <<>>
    /\ UNCHANGED notCtlVars
    /\ IF ValidateDescribeAcls(filter) # NoError
       THEN /\ pc' = "done"
            /\ result' = Rejected(ValidateDescribeAcls(filter))
       ELSE /\ pc' = "refresh"
            /\ result' = Pending

\* await cluster.refreshMetadata()
DescribeAclsRefresh ==
    /\ op = "describeAcls" /\ pc = "refresh"
    /\ UNCHANGED <<op, cpInput, ctlInput>>
    /\ UNCHANGED notCtlVars
    /\ \/ /\ ioLog' = Append(ioLog, IoEvent("refreshMetadata", "ok"))
          /\ pc' = "findController"
          /\ UNCHANGED <<attempt, result>>
       \/ \E t \in ErrorTypes :
            /\ ioLog' = Append(ioLog, IoEvent("refreshMetadata", t))
            /\ DescribeAclsCatch(KafkaJSProtocolError(t))

\* const broker = await cluster.findControllerBroker()
DescribeAclsFindController ==
    /\ op = "describeAcls" /\ pc = "findController"
    /\ UNCHANGED <<op, cpInput, ctlInput>>
    /\ UNCHANGED notCtlVars
    /\ \/ /\ ioLog' = Append(ioLog, IoEvent("findControllerBroker", "ok"))
          /\ pc' = "request"
          /\ UNCHANGED <<attempt, result>>
       \/ \E t \in ErrorTypes :
            /\ ioLog' = Append(ioLog, IoEvent("findControllerBroker", t))
            /\ DescribeAclsCatch(KafkaJSProtocolError(t))

\* return { resources } of await broker.describeAcls(filter)
DescribeAclsRequest ==
    /\ op = "describeAcls" /\ pc = "request"
    /\ UNCHANGED <<op, cpInput, ctlInput>>
    /\ UNCHANGED notCtlVars
    /\ \/ /\ ioLog' = Append(ioLog, IoEvent("broker.describeAcls", "ok"))
          /\ RetrierResolve("resources")
       \/ \E t \in ErrorTypes :
            /\ ioLog' = Append(ioLog, IoEvent("broker.describeAcls", t))
            /\ DescribeAclsCatch(KafkaJSProtocolError(t))

\* catch (e) of deleteAcls.
DeleteAclsRetriable(e) == e.type = "NOT_CONTROLLER"

DeleteAclsCatch(e) ==
    IF DeleteAclsRetriable(e) THEN RetrierCatch(e, "refresh") ELSE Bail(e)

\* deleteAcls({ filters }) up to its first await.
DeleteAcls(filters) ==
    /\ Idle
    /\ op' = "deleteAcls"
    /\ ctlInput' = filters
    /\ UNCHANGED cpInput
    /\ attempt' = 0
    /\ ioLog' = <<>>
    /\ UNCHANGED notCtlVars
    /\ IF ValidateDeleteAcls(filters) # NoError
       THEN /\ pc' = "done"
            /\ result' = Rejected(ValidateDeleteAcls(filters))
       ELSE /\ pc' = "refresh"
            /\ result' = Pending

\* await cluster.refreshMetadata()
DeleteAclsRefresh ==
    /\ op = "deleteAcls" /\ pc = "refresh"
    /\ UNCHANGED <<op, cpInput, ctlInput>>
    /\ UNCHANGED notCtlVars
    /\ \/ /\ ioLog' = Append(ioLog, IoEvent("refreshMetadata", "ok"))
          /\ pc' = "findController"
          /\ UNCHANGED <<attempt, result>>
       \/ \E t \in ErrorTypes :
            /\ ioLog' = Append(ioLog, IoEvent("refreshMetadata", t))
            /\ DeleteAclsCatch(KafkaJSProtocolError(t))

\* const broker = await cluster.findControllerBroker()
DeleteAclsFindController ==
    /\ op = "deleteAcls" /\ pc = "findController"
    /\ UNCHANGED <<op, cpInput, ctlInput>>
    /\ UNCHANGED notCtlVars
    /\ \/ /\ ioLog' = Append(ioLog, IoEvent("findControllerBroker", "ok"))
          /\ pc' = "request"
          /\ UNCHANGED <<attempt, result>>
       \/ \E t \in ErrorTypes :
            /\ ioLog' = Append(ioLog, IoEvent("findControllerBroker", t))
            /\ DeleteAclsCatch(KafkaJSProtocolError(t))

\* return { filterResponses } of await broker.deleteAcls({ filters })
DeleteAclsRequest ==
    /\ op = "deleteAcls" /\ pc = "request"
    /\ UNCHANGED <<op, cpInput, ctlInput>>
    /\ UNCHANGED notCtlVars
    /\ \/ /\ ioLog' = Append(ioLog, IoEvent("broker.deleteAcls", "ok"))
          /\ RetrierResolve("filterResponses")
       \/ \E t \in ErrorTypes :
            /\ ioLog' = Append(ioLog, IoEvent("broker.deleteAcls", t))
            /\ DeleteAclsCatch(KafkaJSProtocolError(t))

(***************************************************************************)
(* fetchOffsets.                                                           *)
(***************************************************************************)
\* The checks of fetchOffsets: the error thrown, or NoError.
ValidateFetchOffsets(groupId, topic) ==
    IF groupId = ""
    THEN KafkaJSNonRetriableError("Invalid groupId " \o groupId, 0)
    ELSE IF topic = ""
    THEN KafkaJSNonRetriableError("Invalid topic " \o topic, 0)
    ELSE NoError

\* metadata values of an offsetFetch answer: undefined, null, '' or a text.
OffsetMetadata ==
    {[type |-> "undefined", text |-> ""], [type |-> "null", text |-> ""],
     [type |-> "string", text |-> ""], [type |-> "string", text |-> "meta"]}

Null == [type |-> "null", text |-> ""]

\* metadata || null
MetadataKept(metadata) == metadata

MetadataOrNull(metadata) ==
    IF metadata.type \in {"undefined", "null"} \/ metadata.text = ""
    THEN Null
    ELSE metadata

\* The offsets a group can have committed; -1: none.
CommittedOffsets == {-1} \cup (0..(MaxOffset - 1))

\* { groupId, topics: [{ topic, partitions: partitionsToFetch }] }
OffsetFetchRequest ==
    [groupId |-> foInput.groupId,
     topics |-> <<[topic |-> foInput.topic,
                   partitions |-> [i \in DOMAIN foPartitions |->
                                      [partition |-> foPartitions[i]]]]>>]

\* The `responses` a coordinator answers a request with: an entry per topic
\* of the request, with an entry per partition asked for.
OffsetFetchResponses(request) ==
    {<<[topic |-> request.topics[1].topic, partitions |-> ps]>> :
        ps \in {f \in [DOMAIN request.topics[1].partitions ->
                          [partition : Partitions, offset : CommittedOffsets,
                           metadata : OffsetMetadata]] :
                    \A i \in DOMAIN f :
                        f[i].partition = request.topics[1].partitions[i].partition}}

\* responses.filter(response => response.topic === topic)
\*     .map(({ partitions }) => partitions.map(...)).pop()
FetchedOffsets(responses, topic) ==
    LET matching == SelectSeq(responses, LAMBDA response : response.topic = topic)
        mapped == [i \in DOMAIN matching |->
                      [k \in DOMAIN matching[i].partitions |->
                          [partition |-> matching[i].partitions[k].partition,
                           offset |-> matching[i].partitions[k].offset,
                           metadata |->
                               MetadataOrNull(matching[i].partitions[k].metadata)]]]
    IN  mapped[Len(mapped)]

\* fetchOffsets({ groupId, topic }) up to its first await.
FetchOffsets(groupId, topic) ==
    /\ Idle
    /\ op' = "fetchOffsets"
    /\ foInput' = [groupId |-> groupId, topic |-> topic]
    /\ attempt' = 0
    /\ ioLog' = <<>>
    /\ coordinator' = 0
    /\ sentTo' = 0
    /\ foPartitions' = <<>>
    /\ foRequest' = <<>>
    /\ foResponse' = <<>>
    /\ foReturned' = <<>>
    /\ UNCHANGED <<gtmInput, addedTopics, gtmPending>>
    /\ UNCHANGED notFetchOffsetsVarsExceptTarget
    /\ IF ValidateFetchOffsets(groupId, topic) # NoError
       THEN /\ pc' = "done"
            /\ result' = Rejected(ValidateFetchOffsets(groupId, topic))
       ELSE /\ pc' = "addTargetTopic"
            /\ result' = Pending
    /\ CallsAddTargetTopic(topic)

\* A step of fetchOffsets that throws: the call is rejected, there is no retrier.
FetchOffsetsThrows(call, e) ==
    /\ ioLog' = Append(ioLog, IoEvent(call, e.type))
    /\ pc' = "done"
    /\ result' = Rejected(e)
    /\ UNCHANGED <<coordinator, sentTo>>
    /\ UNCHANGED foVars

\* findTopicPartitions: await cluster.addTargetTopic(topic)
FetchOffsetsAddTargetTopic ==
    /\ op = "fetchOffsets" /\ pc = "addTargetTopic"
    /\ UNCHANGED <<op, attempt, foInput, gtmInput, addedTopics, gtmPending>>
    /\ UNCHANGED notFetchOffsetsVars
    /\ \/ /\ ioLog' = Append(ioLog, IoEvent("addTargetTopic", "ok"))
          /\ pc' = "refreshIfNecessary"
          /\ UNCHANGED <<result, coordinator, sentTo>>
          /\ UNCHANGED foVars
       \/ \E t \in ErrorTypes : FetchOffsetsThrows("addTargetTopic", KafkaJSProtocolError(t))

\* findTopicPartitions: await cluster.refreshMetadataIfNecessary(), which
\* refreshes the metadata only when the cluster holds it for stale, and the
\* partition ids of the topic, sorted.
FetchOffsetsRefreshIfNecessary ==
    /\ op = "fetchOffsets" /\ pc = "refreshIfNecessary"
    /\ UNCHANGED <<op, attempt, foInput, gtmInput, addedTopics, gtmPending>>
    /\ UNCHANGED notFetchOffsetsVars
    /\ \/ \E outcome \in {"refreshed", "fresh"}, metadata \in TopicPartitionMetadata :
            /\ ioLog' = Append(ioLog, IoEvent("refreshMetadataIfNecessary", outcome))
            /\ foPartitions' = PartitionIdsSorted(metadata)
            /\ pc' = "findCoordinator"
            /\ UNCHANGED <<result, coordinator, sentTo, foRequest, foResponse,
                           foReturned>>
       \/ \E t \in ErrorTypes :
            FetchOffsetsThrows("refreshMetadataIfNecessary", KafkaJSProtocolError(t))

\* const coordinator = await cluster.findGroupCoordinator({ groupId })
FetchOffsetsFindCoordinator ==
    /\ op = "fetchOffsets" /\ pc = "findCoordinator"
    /\ UNCHANGED <<op, attempt, foInput, gtmInput, addedTopics, gtmPending>>
    /\ UNCHANGED notFetchOffsetsVars
    /\ \/ \E n \in Nodes :
            /\ ioLog' = Append(ioLog, IoEvent("findGroupCoordinator", "ok"))
            /\ coordinator' = n
            /\ pc' = "offsetFetch"
            /\ UNCHANGED <<result, sentTo>>
            /\ UNCHANGED foVars
       \/ \E t \in ErrorTypes :
            FetchOffsetsThrows("findGroupCoordinator", KafkaJSProtocolError(t))

\* await coordinator.offsetFetch(...) and the offsets of the topic.
FetchOffsetsRequest ==
    /\ op = "fetchOffsets" /\ pc = "offsetFetch"
    /\ UNCHANGED <<op, attempt, foInput, gtmInput, addedTopics, gtmPending>>
    /\ UNCHANGED notFetchOffsetsVars
    /\ \/ \E responses \in OffsetFetchResponses(OffsetFetchRequest) :
            /\ ioLog' = Append(ioLog, IoEvent("broker.offsetFetch", "ok"))
            /\ sentTo' = coordinator
            /\ foRequest' = OffsetFetchRequest
            /\ foResponse' = responses
            /\ foReturned' = FetchedOffsets(responses, foInput.topic)
            /\ pc' = "done"
            /\ result' = Resolved("offsets")
            /\ UNCHANGED <<coordinator, foPartitions>>
       \/ \E t \in ErrorTypes :
            /\ ioLog' = Append(ioLog, IoEvent("broker.offsetFetch", t))
            /\ sentTo' = coordinator
            /\ foRequest' = OffsetFetchRequest
            /\ pc' = "done"
            /\ result' = Rejected(KafkaJSProtocolError(t))
            /\ UNCHANGED <<coordinator, foPartitions, foResponse, foReturned>>

(***************************************************************************)
(* getTopicMetadata.                                                       *)
(***************************************************************************)
\* The `topics` option: undefined, or an array of names; 0 is a falsy entry.
FalsyTopic == 0

GetTopicMetadataInputs ==
    {[kind |-> "undefined", items |-> <<>>]}
        \cup {[kind |-> "array", items |-> s] :
                s \in SeqsUpTo(TopicNames \cup {FalsyTopic}, MaxTopics)}

\* The entries of the list that pass `if (!topic)`, in the order of the list.
TruthyTopics(items) == SelectSeq(items, LAMBDA t : t # FalsyTopic)

\* topics.map(async topic => ...) up to the first await of each callback: the
\* callback of a falsy entry throws, the callback of any other entry calls
\* cluster.addTargetTopic(topic), which adds the topic to cluster.targetTopics
\* before it awaits anything.  Promise.all rejects with the first rejection;
\* of an empty list it is fulfilled at once, and the handler goes on to
\* `await cluster.refreshMetadataIfNecessary()`, as it does without `topics`.
GetTopicMetadata(topics) ==
    /\ Idle
    /\ op' = "getTopicMetadata"
    /\ gtmInput' = topics
    /\ attempt' = 0
    /\ ioLog' = <<>>
    /\ targetBefore' = targetTopics
    /\ UNCHANGED <<foInput, coordinator, sentTo>>
    /\ UNCHANGED lgVars
    /\ UNCHANGED foVars
    /\ UNCHANGED overlapVars
    /\ UNCHANGED <<aclVars, dgVars, offVars, ftoVars, ctlVars, topicCallVars,
                   existingTopics, dtInput, dtLog, unknownAnswers>>
    /\ IF topics.kind # "array"
       THEN /\ pc' = "refreshIfNecessary"
            /\ result' = Pending
            /\ UNCHANGED <<targetTopics, addedTopics, gtmPending>>
       ELSE /\ addedTopics' = TruthyTopics(topics.items)
            /\ targetTopics' =
                  targetTopics \cup TopicTexts(SeqToSet(TruthyTopics(topics.items)))
            /\ IF \E i \in DOMAIN topics.items : topics.items[i] = FalsyTopic
               THEN /\ pc' = "done"
                    /\ result' = Rejected(KafkaJSNonRetriableError(
                                     "Invalid topic " \o ToString(FalsyTopic), 0))
                    /\ gtmPending' = {}
               ELSE /\ pc' = IF topics.items = <<>>
                             THEN "refreshIfNecessary"
                             ELSE "addTargetTopic"
                    /\ result' = Pending
                    /\ gtmPending' = DOMAIN topics.items

\* e.message = `Failed to add target topic ${topic}: ${e.message}`
FailedToAddTargetTopic(e, topic) ==
    [e EXCEPT !.message =
                  "Failed to add target topic " \o TopicText(topic) \o ": " \o e.message]

\* One of the cluster.addTargetTopic calls is answered, in any order: the
\* first one that fails rejects the call (the answers of the others are
\* then of no effect), the last one that succeeds fulfils Promise.all.
GetTopicMetadataAddTargetTopics ==
    /\ op = "getTopicMetadata" /\ pc = "addTargetTopic"
    /\ UNCHANGED <<op, attempt, gtmInput, addedTopics, foInput, coordinator, sentTo>>
    /\ UNCHANGED notMetaVars
    /\ \E i \in gtmPending :
          /\ gtmPending' = gtmPending \ {i}
          /\ \/ /\ ioLog' = Append(ioLog, IoEvent("addTargetTopic", "ok"))
                /\ pc' = IF gtmPending = {i} THEN "refreshIfNecessary" ELSE "addTargetTopic"
                /\ UNCHANGED result
             \/ \E t \in ErrorTypes :
                  /\ ioLog' = Append(ioLog, IoEvent("addTargetTopic", t))
                  /\ pc' = "done"
                  /\ result' = Rejected(FailedToAddTargetTopic(KafkaJSProtocolError(t),
                                                              gtmInput.items[i]))

\* await cluster.refreshMetadataIfNecessary() and the partition metadata of
\* every topic.
GetTopicMetadataRefreshIfNecessary ==
    /\ op = "getTopicMetadata" /\ pc = "refreshIfNecessary"
    /\ UNCHANGED <<op, attempt, gtmInput, addedTopics, gtmPending, foInput, coordinator,
                   sentTo>>
    /\ UNCHANGED notMetaVars
    /\ \/ /\ ioLog' = Append(ioLog, IoEvent("refreshMetadataIfNecessary", "ok"))
          /\ pc' = "done"
          /\ result' = Resolved("topics")
       \/ \E t \in ErrorTypes :
            /\ ioLog' = Append(ioLog, IoEvent("refreshMetadataIfNecessary", t))
            /\ pc' = "done"
            /\ result' = Rejected(KafkaJSProtocolError(t))

(***************************************************************************)
(* listGroups.                                                             *)
(***************************************************************************)
\* The keys of cluster.brokerPool.brokers in the order of `for (var nodeId in
\* ...)`: integer keys, ascending.
RECURSIVE KeysInOrder(_)
KeysInOrder(brokers) ==
    IF brokers = {} THEN <<>>
    ELSE LET least == CHOOSE n \in brokers : \A m \in brokers : n <= m
         IN  <<least>> \o KeysInOrder(brokers \ {least})

BrokerPoolKeys == KeysInOrder(brokerPool)

\* The `groups` a broker can answer listGroups with.
ListGroupsResponses == {s \in SeqsUpTo(Groups, MaxGroups) : NoRepeat(s)}

\* A call made by listGroups, with the broker it is about and its outcome.
LgEvent(call, node, outcome) == [call |-> call, node |-> node, outcome |-> outcome]

\* groups = groups.concat(response.groups)
ConcatWithoutDuplicates(groups, response) ==
    groups \o SelectSeq(response, LAMBDA g : \A i \in DOMAIN groups : groups[i] # g)

ConcatGroups(groups, response) == groups \o response

\* listGroups() up to its first await.
ListGroups ==
    /\ Idle
    /\ op' = "listGroups"
    /\ pc' = "refresh"
    /\ attempt' = 0
    /\ result' = Pending
    /\ ioLog' = <<>>
    /\ lgNext' = 1
    /\ lgLog' = <<>>
    /\ lgResponses' = <<>>
    /\ groupsAcc' = <<>>
    /\ brokerPool' = {}
    /\ UNCHANGED notLgVars

\* An awaited call of listGroups throws: the call is rejected with the error.
ListGroupsThrows(call, node, e) ==
    /\ lgLog' = Append(lgLog, LgEvent(call, node, e.type))
    /\ pc' = "done"
    /\ result' = Rejected(e)
    /\ UNCHANGED <<lgNext, lgResponses, groupsAcc, brokerPool>>

\* The head of the for-in loop: the next key, or `return { groups }`.
ListGroupsLoop ==
    IF lgNext' > Cardinality(brokerPool')
    THEN pc' = "done" /\ result' = Resolved("groups")
    ELSE pc' = "findBroker" /\ result' = result

\* await cluster.refreshMetadata(); let groups = []
ListGroupsRefresh ==
    /\ op = "listGroups" /\ pc = "refresh"
    /\ UNCHANGED <<op, attempt, ioLog>>
    /\ UNCHANGED notLgVars
    /\ \/ \E brokers \in SUBSET Nodes :
            /\ lgLog' = Append(lgLog, LgEvent("refreshMetadata", 0, "ok"))
            /\ brokerPool' = brokers
            /\ UNCHANGED <<lgNext, lgResponses, groupsAcc>>
            /\ ListGroupsLoop
       \/ \E t \in ErrorTypes :
            ListGroupsThrows("refreshMetadata", 0, KafkaJSProtocolError(t))

\* const broker = await cluster.findBroker({ nodeId })
ListGroupsFindBroker ==
    /\ op = "listGroups" /\ pc = "findBroker"
    /\ UNCHANGED <<op, attempt, ioLog>>
    /\ UNCHANGED notLgVars
    /\ \/ /\ lgLog' = Append(lgLog, LgEvent("findBroker", BrokerPoolKeys[lgNext], "ok"))
          /\ pc' = "listGroups"
          /\ UNCHANGED <<result, lgNext, lgResponses, groupsAcc, brokerPool>>
       \/ \E t \in ErrorTypes :
            ListGroupsThrows("findBroker", BrokerPoolKeys[lgNext], KafkaJSProtocolError(t))

\* const response = await broker.listGroups()
\* groups = groups.concat(response.groups)
ListGroupsRequest ==
    /\ op = "listGroups" /\ pc = "listGroups"
    /\ UNCHANGED <<op, attempt, ioLog>>
    /\ UNCHANGED notLgVars
    /\ \/ \E response \in ListGroupsResponses :
            /\ lgLog' = Append(lgLog,
                               LgEvent("broker.listGroups", BrokerPoolKeys[lgNext], "ok"))
            /\ lgResponses' = Append(lgResponses, response)
            /\ groupsAcc' = ConcatGroups(groupsAcc, response)
            /\ lgNext' = lgNext + 1
            /\ UNCHANGED brokerPool
            /\ ListGroupsLoop
       \/ \E t \in ErrorTypes :
            ListGroupsThrows("broker.listGroups", BrokerPoolKeys[lgNext],
                             KafkaJSProtocolError(t))

(***************************************************************************)
(* Calls with an input that breaks a rule of the operation's validation.   *)
(***************************************************************************)
\* Some rule of createTopics is broken: not an array, a name that is not a
\* string, or a name given twice.
CreateTopicsMalformed(topics) ==
    \/ topics.kind # "array"
    \/ NonStringTopic \in SeqToSet(topics.items)
    \/ ~NoRepeat(topics.items)

\* Some rule of createPartitions is broken: not an array, empty, a name that is
\* not a string, or a name given twice.
CreatePartitionsMalformed(topicPartitions) ==
    \/ topicPartitions.kind # "array"
    \/ topicPartitions.items = <<>>
    \/ NonStringTopic \in SeqToSet(topicPartitions.items)
    \/ ~NoRepeat(topicPartitions.items)

\* Some rule of deleteTopics is broken: not an array, or a name that is not a
\* string.
DeleteTopicsMalformed(topics) ==
    \/ topics.kind # "array"
    \/ NonStringTopic \in SeqToSet(topics.items)

\* A resource breaks a rule both describeConfigs and alterConfigs have.
ResourceMalformed(r) ==
    \/ r.type \notin RESOURCE_TYPES
    \/ r.name.type # "string"
    \/ r.name.text = ""

\* Some rule of describeConfigs is broken.
DescribeConfigsMalformed(resources) ==
    \/ resources.kind # "array"
    \/ resources.items = <<>>
    \/ \E r \in SeqToSet(resources.items) :
          \/ ResourceMalformed(r)
          \/ r.configNames.type \notin {"array", "undefined"}

\* Some rule of alterConfigs is broken.
AlterConfigsMalformed(resources) ==
    \/ resources.kind # "array"
    \/ resources.items = <<>>
    \/ \E r \in SeqToSet(resources.items) :
          \/ ResourceMalformed(r)
          \/ r.configEntries.type # "entries"

\* An ACL filter breaks a rule of describeAcls or deleteAcls.
AclFilterMalformed(f) ==
    \/ \E field \in {"principal", "host", "resourceName"} :
          f[field] \notin {"string", "undefined"}
    \/ f.operation \notin OPERATION_TYPES
    \/ f.resourcePatternType \notin RESOURCE_PATTERN_TYPES
    \/ f.permissionType \notin PERMISSION_TYPES
    \/ f.resourceType \notin RESOURCE_TYPES

\* Some rule of deleteAcls is broken.
DeleteAclsMalformed(filters) ==
    \/ filters.kind # "array"
    \/ filters.items = <<>>
    \/ \E f \in SeqToSet(filters.items) : AclFilterMalformed(f)

\* Some rule of deleteGroups is broken: not an array, or an id that is not a
\* string.
DeleteGroupsMalformed(g) ==
    \/ g.kind # "array"
    \/ NonStringGroupId \in SeqToSet(g.items)

\* The topic of fetchTopicOffsets is not a string, or is empty.
FetchTopicOffsetsMalformed(topic) == topic.type # "string" \/ topic.text = ""

\* The groupId or the topic of fetchOffsets, setOffsets or resetOffsets is
\* empty.
GroupOrTopicMalformed(groupId, topic) == groupId = "" \/ topic = ""

\* Some rule of setOffsets is broken.
SetOffsetsMalformed(in) ==
    \/ GroupOrTopicMalformed(in.groupId, in.topic)
    \/ in.partitions.kind # "array"
    \/ in.partitions.items = <<>>

(***************************************************************************)
(* The specifications.                                                     *)
(***************************************************************************)
(***************************************************************************)
(* Calls that overlap.  The operations are async functions over the one    *)
(* cluster of the client: at its first await a handler hands its caller a  *)
(* pending promise, and the caller may make another call before the first  *)
(* has settled.  Besides the call whose handler is running the client      *)
(* holds the calls that wait at an await, up to MaxCalls calls in all;     *)
(* cluster.targetTopics and what the brokers hold are theirs in common.    *)
(***************************************************************************)
\* The locals of a handler that has not been called.
FreshContext ==
    [op |-> "none",
     pc |-> "idle",
     attempt |-> 0,
     result |-> Pending,
     ioLog |-> <<>>,
     aclInput |-> [kind |-> "undefined", items |-> <<>>],
     groupIds |-> [kind |-> "undefined", items |-> <<>>],
     clonedGroupIds |-> <<>>,
     results |-> <<>>,
     brokersPerGroups |-> [n \in Nodes |-> <<>>],
     brokersPerNode |-> {},
     lookupIdx |-> 1,
     res |-> {},
     inflight |-> {},
     lookups |-> <<>>,
     prevLookups |-> <<>>,
     moved |-> FALSE,
     sent |-> <<>>,
     okAnswered |-> {},
     resent |-> {},
     topicsInput |-> [kind |-> "undefined", items |-> <<>>],
     waitForLeaders |-> TRUE,
     polls |-> 0,
     dtInput |-> [kind |-> "undefined", items |-> <<>>],
     dtLog |-> <<>>,
     targetBefore |-> {},
     unknownAnswers |-> 0,
     offInput |-> [groupId |-> "", topic |-> "", partitions |-> [kind |-> "undefined", items |-> <<>>]],
     earliest |-> "undefined",
     description |-> "",
     consumerLog |-> <<>>,
     fetches |-> 0,
     stopsPending |-> 0,
     consumerState |-> "none",
     positions |-> {},
     committed |-> {},
     settlements |-> <<>>,
     ftoTopic |-> [type |-> "undefined", text |-> "undefined"],
     watermarks |-> <<>>,
     highPartitions |-> <<>>,
     lowPartitions |-> <<>>,
     offsetsReturned |-> <<>>,
     clusterCalls |-> 0,
     cpInput |-> [kind |-> "undefined", items |-> <<>>],
     ctlInput |-> [kind |-> "undefined", items |-> <<>>],
     foInput |-> [groupId |-> "", topic |-> ""],
     coordinator |-> 0,
     sentTo |-> 0,
     gtmInput |-> [kind |-> "undefined", items |-> <<>>],
     addedTopics |-> <<>>,
     gtmPending |-> {},
     lgNext |-> 1,
     lgLog |-> <<>>,
     lgResponses |-> <<>>,
     groupsAcc |-> <<>>,
     brokerPool |-> {},
     foPartitions |-> <<>>,
     foRequest |-> <<>>,
     foResponse |-> <<>>,
     foReturned |-> <<>>,
     interleaved |-> FALSE]

\* The locals of the handler that is running.
Context ==
    [op |-> op,
     pc |-> pc,
     attempt |-> attempt,
     result |-> result,
     ioLog |-> ioLog,
     aclInput |-> aclInput,
     groupIds |-> groupIds,
     clonedGroupIds |-> clonedGroupIds,
     results |-> results,
     brokersPerGroups |-> brokersPerGroups,
     brokersPerNode |-> brokersPerNode,
     lookupIdx |-> lookupIdx,
     res |-> res,
     inflight |-> inflight,
     lookups |-> lookups,
     prevLookups |-> prevLookups,
     moved |-> moved,
     sent |-> sent,
     okAnswered |-> okAnswered,
     resent |-> resent,
     topicsInput |-> topicsInput,
     waitForLeaders |-> waitForLeaders,
     polls |-> polls,
     dtInput |-> dtInput,
     dtLog |-> dtLog,
     targetBefore |-> targetBefore,
     unknownAnswers |-> unknownAnswers,
     offInput |-> offInput,
     earliest |-> earliest,
     description |-> description,
     consumerLog |-> consumerLog,
     fetches |-> fetches,
     stopsPending |-> stopsPending,
     consumerState |-> consumerState,
     positions |-> positions,
     committed |-> committed,
     settlements |-> settlements,
     ftoTopic |-> ftoTopic,
     watermarks |-> watermarks,
     highPartitions |-> highPartitions,
     lowPartitions |-> lowPartitions,
     offsetsReturned |-> offsetsReturned,
     clusterCalls |-> clusterCalls,
     cpInput |-> cpInput,
     ctlInput |-> ctlInput,
     foInput |-> foInput,
     coordinator |-> coordinator,
     sentTo |-> sentTo,
     gtmInput |-> gtmInput,
     addedTopics |-> addedTopics,
     gtmPending |-> gtmPending,
     lgNext |-> lgNext,
     lgLog |-> lgLog,
     lgResponses |-> lgResponses,
     groupsAcc |-> groupsAcc,
     brokerPool |-> brokerPool,
     foPartitions |-> foPartitions,
     foRequest |-> foRequest,
     foResponse |-> foResponse,
     foReturned |-> foReturned,
     interleaved |-> interleaved]

\* The calls besides the running one when none of them has been made.
NoCalls == [c \in {FreshContext} |-> MaxCalls - 1]

\* The caller goes on without awaiting the promise it holds, or the event
\* loop turns to the handler of another call: the running handler is set
\* aside at its await and c takes its place.  When c is a call that has not
\* been made the client is ready for a call.
SwitchCall(c) ==
    /\ BagIn(c, parked)
    /\ ~(pc = "idle" /\ c.pc = "idle")
    /\ parked' = (parked (-) SetToBag({c}))
                     (+) SetToBag({[Context EXCEPT !.interleaved = interleaved \/ pc # "idle"]})
    /\ interleaved' = c.interleaved
    /\ op' = c.op
    /\ pc' = c.pc
    /\ attempt' = c.attempt
    /\ result' = c.result
    /\ ioLog' = c.ioLog
    /\ aclInput' = c.aclInput
    /\ groupIds' = c.groupIds
    /\ clonedGroupIds' = c.clonedGroupIds
    /\ results' = c.results
    /\ brokersPerGroups' = c.brokersPerGroups
    /\ brokersPerNode' = c.brokersPerNode
    /\ lookupIdx' = c.lookupIdx
    /\ res' = c.res
    /\ inflight' = c.inflight
    /\ lookups' = c.lookups
    /\ prevLookups' = c.prevLookups
    /\ moved' = c.moved
    /\ sent' = c.sent
    /\ okAnswered' = c.okAnswered
    /\ resent' = c.resent
    /\ topicsInput' = c.topicsInput
    /\ waitForLeaders' = c.waitForLeaders
    /\ polls' = c.polls
    /\ dtInput' = c.dtInput
    /\ dtLog' = c.dtLog
    /\ targetBefore' = c.targetBefore
    /\ unknownAnswers' = c.unknownAnswers
    /\ offInput' = c.offInput
    /\ earliest' = c.earliest
    /\ description' = c.description
    /\ consumerLog' = c.consumerLog
    /\ fetches' = c.fetches
    /\ stopsPending' = c.stopsPending
    /\ consumerState' = c.consumerState
    /\ positions' = c.positions
    /\ committed' = c.committed
    /\ settlements' = c.settlements
    /\ ftoTopic' = c.ftoTopic
    /\ watermarks' = c.watermarks
    /\ highPartitions' = c.highPartitions
    /\ lowPartitions' = c.lowPartitions
    /\ offsetsReturned' = c.offsetsReturned
    /\ clusterCalls' = c.clusterCalls
    /\ cpInput' = c.cpInput
    /\ ctlInput' = c.ctlInput
    /\ foInput' = c.foInput
    /\ coordinator' = c.coordinator
    /\ sentTo' = c.sentTo
    /\ gtmInput' = c.gtmInput
    /\ addedTopics' = c.addedTopics
    /\ gtmPending' = c.gtmPending
    /\ lgNext' = c.lgNext
    /\ lgLog' = c.lgLog
    /\ lgResponses' = c.lgResponses
    /\ groupsAcc' = c.groupsAcc
    /\ brokerPool' = c.brokerPool
    /\ foPartitions' = c.foPartitions
    /\ foRequest' = c.foRequest
    /\ foResponse' = c.foResponse
    /\ foReturned' = c.foReturned
    /\ UNCHANGED <<deletedGroups, existingTopics, targetTopics, lastCreate>>

Init ==
    /\ parked = NoCalls
    /\ interleaved = FALSE
    /\ foPartitions = <<>>
    /\ foRequest = <<>>
    /\ foResponse = <<>>
    /\ foReturned = <<>>
    /\ lgNext = 1
    /\ lgLog = <<>>
    /\ lgResponses = <<>>
    /\ groupsAcc = <<>>
    /\ brokerPool = {}
    /\ op = "none"
    /\ pc = "idle"
    /\ attempt = 0
    /\ result = Pending
    /\ ioLog = <<>>
    /\ aclInput = [kind |-> "undefined", items |-> <<>>]
    /\ groupIds = [kind |-> "undefined", items |-> <<>>]
    /\ clonedGroupIds = <<>>
    /\ results = <<>>
    /\ brokersPerGroups = [n \in Nodes |-> <<>>]
    /\ brokersPerNode = {}
    /\ lookupIdx = 1
    /\ res = {}
    /\ inflight = {}
    /\ deletedGroups = {}
    /\ lookups = <<>>
    /\ prevLookups = <<>>
    /\ moved = FALSE
    /\ sent = <<>>
    /\ okAnswered = {}
    /\ resent = {}
    /\ topicsInput = [kind |-> "undefined", items |-> <<>>]
    /\ waitForLeaders = TRUE
    /\ polls = 0
    /\ existingTopics = {}
    /\ lastCreate = {}
    /\ dtInput = [kind |-> "undefined", items |-> <<>>]
    /\ dtLog = <<>>
    /\ targetTopics = {}
    /\ targetBefore = {}
    /\ unknownAnswers = 0
    /\ cpInput = [kind |-> "undefined", items |-> <<>>]
    /\ ctlInput = [kind |-> "undefined", items |-> <<>>]
    /\ foInput = [groupId |-> "", topic |-> ""]
    /\ coordinator = 0
    /\ sentTo = 0
    /\ gtmInput = [kind |-> "undefined", items |-> <<>>]
    /\ addedTopics = <<>>
    /\ gtmPending = {}
    /\ offInput = [groupId |-> "", topic |-> "",
                   partitions |-> [kind |-> "undefined", items |-> <<>>]]
    /\ earliest = "undefined"
    /\ description = ""
    /\ consumerLog = <<>>
    /\ fetches = 0
    /\ stopsPending = 0
    /\ consumerState = "none"
    /\ positions = {}
    /\ committed = {}
    /\ settlements = <<>>
    /\ ftoTopic = [type |-> "undefined", text |-> "undefined"]
    /\ watermarks = <<>>
    /\ highPartitions = <<>>
    /\ lowPartitions = <<>>
    /\ offsetsReturned = <<>>
    /\ clusterCalls = 0

\* The caller has its answer; the client is ready for the next call.  What
\* the cluster holds stays.
Return ==
    /\ interleaved' = FALSE
    /\ UNCHANGED parked
    /\ foPartitions' = <<>>
    /\ foRequest' = <<>>
    /\ foResponse' = <<>>
    /\ foReturned' = <<>>
    /\ lgNext' = 1
    /\ lgLog' = <<>>
    /\ lgResponses' = <<>>
    /\ groupsAcc' = <<>>
    /\ brokerPool' = {}
    /\ pc = "done"
    /\ pc' = "idle"
    /\ op' = "none"
    /\ attempt' = 0
    /\ result' = Pending
    /\ ioLog' = <<>>
    /\ aclInput' = [kind |-> "undefined", items |-> <<>>]
    /\ groupIds' = [kind |-> "undefined", items |-> <<>>]
    /\ clonedGroupIds' = <<>>
    /\ results' = <<>>
    /\ brokersPerGroups' = [n \in Nodes |-> <<>>]
    /\ brokersPerNode' = {}
    /\ lookupIdx' = 1
    /\ res' = {}
    /\ lookups' = <<>>
    /\ prevLookups' = <<>>
    /\ moved' = FALSE
    /\ sent' = <<>>
    /\ okAnswered' = {}
    /\ resent' = {}
    /\ topicsInput' = [kind |-> "undefined", items |-> <<>>]
    /\ waitForLeaders' = TRUE
    /\ polls' = 0
    /\ lastCreate' = (IF op = "createTopics" /\ result = Resolved("true")
                      THEN SeqToSet(topicsInput.items)
                      ELSE {})
    /\ offInput' = [groupId |-> "", topic |-> "",
                    partitions |-> [kind |-> "undefined", items |-> <<>>]]
    /\ earliest' = "undefined"
    /\ description' = ""
    /\ consumerLog' = <<>>
    /\ fetches' = 0
    /\ stopsPending' = 0
    /\ consumerState' = "none"
    /\ positions' = {}
    /\ committed' = {}
    /\ settlements' = <<>>
    /\ ftoTopic' = [type |-> "undefined", text |-> "undefined"]
    /\ watermarks' = <<>>
    /\ highPartitions' = <<>>
    /\ lowPartitions' = <<>>
    /\ offsetsReturned' = <<>>
    /\ clusterCalls' = 0
    /\ dtInput' = [kind |-> "undefined", items |-> <<>>]
    /\ dtLog' = <<>>
    /\ targetBefore' = {}
    /\ unknownAnswers' = 0
    /\ cpInput' = [kind |-> "undefined", items |-> <<>>]
    /\ ctlInput' = [kind |-> "undefined", items |-> <<>>]
    /\ foInput' = [groupId |-> "", topic |-> ""]
    /\ coordinator' = 0
    /\ sentTo' = 0
    /\ gtmInput' = [kind |-> "undefined", items |-> <<>>]
    /\ addedTopics' = <<>>
    /\ gtmPending' = {}
    /\ UNCHANGED <<inflight, deletedGroups, existingTopics, targetTopics>>

NextAcls ==
    \/ Idle /\ \E acl \in AclInputs : CreateAcls(acl)
    \/ Return
    \/ CreateAclsRefresh
    \/ CreateAclsFindController
    \/ CreateAclsRequest

SpecAcls == Init /\ [][NextAcls]_vars

NextGroups ==
    \/ Idle /\ \E g \in GroupIdsInputs : DeleteGroups(g)
    \/ Return
    \/ DeleteGroupsRefresh
    \/ DeleteGroupsFindCoordinator
    \/ \E c \in inflight : BrokerDeleteGroupsAnswer(c)

SpecGroups == Init /\ [][NextGroups]_vars

NextTopics ==
    \/ Idle /\ \E topics \in TopicsInputs, wait \in BOOLEAN : CreateTopics(topics, wait)
    \/ Return
    \/ CreateTopicsRefresh
    \/ CreateTopicsFindController
    \/ CreateTopicsRequest
    \/ CreateTopicsPoll
    \/ CreateTopicsPollTimeout

SpecTopics == Init /\ [][NextTopics]_vars

NextDeleteTopics ==
    \/ Idle /\ \E topics \in DeleteTopicsInputs : DeleteTopics(topics)
    \/ Return
    \/ DeleteTopicsRefresh
    \/ DeleteTopicsFindController
    \/ DeleteTopicsRequest
    \/ DeleteTopicsPostRefresh
    \/ \E t \in TopicNames : TopicCreatedElsewhere(t)
    \/ \E t \in TopicNames : AddTargetTopic(t)

SpecDeleteTopics == Init /\ [][NextDeleteTopics]_vars

\* Every awaited call of an attempt settles: the cluster and the broker answer.
DeleteTopicsAttemptSteps ==
    \/ DeleteTopicsRefresh
    \/ DeleteTopicsFindController
    \/ DeleteTopicsRequest
    \/ DeleteTopicsPostRefresh

FairSpecDeleteTopics == SpecDeleteTopics /\ WF_vars(DeleteTopicsAttemptSteps)

NextControllerOps ==
    \/ Idle /\ \E topicPartitions \in TopicPartitionsInputs : CreatePartitions(topicPartitions)
    \/ Idle /\ \E resources \in ResourcesInputs : DescribeConfigs(resources)
    \/ Idle /\ \E resources \in ResourcesInputs : AlterConfigs(resources)
    \/ Idle /\ \E filter \in AclFilters : DescribeAcls(filter)
    \/ Idle /\ \E filters \in FiltersInputs : DeleteAcls(filters)
    \/ Return
    \/ CreatePartitionsRefresh
    \/ CreatePartitionsFindController
    \/ CreatePartitionsRequest
    \/ DescribeConfigsRefresh
    \/ DescribeConfigsFindController
    \/ DescribeConfigsRequest
    \/ AlterConfigsRefresh
    \/ AlterConfigsFindController
    \/ AlterConfigsRequest
    \/ DescribeAclsRefresh
    \/ DescribeAclsFindController
    \/ DescribeAclsRequest
    \/ DeleteAclsRefresh
    \/ DeleteAclsFindController
    \/ DeleteAclsRequest

SpecControllerOps == Init /\ [][NextControllerOps]_vars

\* The six operations that send one request to the controller.
NextControllerCalls ==
    \/ NextAcls
    \/ NextControllerOps

SpecControllerCalls == Init /\ [][NextControllerCalls]_vars

NextFetchOffsets ==
    \/ Idle /\ \E groupId \in NameArgs, topic \in TopicNameArgs : FetchOffsets(groupId, topic)
    \/ Return
    \/ FetchOffsetsAddTargetTopic
    \/ FetchOffsetsRefreshIfNecessary
    \/ FetchOffsetsFindCoordinator
    \/ FetchOffsetsRequest

SpecFetchOffsets == Init /\ [][NextFetchOffsets]_vars

\* The operations that resolve a node and send it one request.
NextRoutedCalls ==
    \/ NextControllerCalls
    \/ NextFetchOffsets

SpecRoutedCalls == Init /\ [][NextRoutedCalls]_vars

NextTopicMetadata ==
    \/ Idle /\ \E topics \in GetTopicMetadataInputs : GetTopicMetadata(topics)
    \/ Return
    \/ GetTopicMetadataAddTargetTopics
    \/ GetTopicMetadataRefreshIfNecessary
    \/ \E t \in TopicNames : AddTargetTopic(t)

SpecTopicMetadata == Init /\ [][NextTopicMetadata]_vars

NextOffsets ==
    \/ Idle /\ \E in \in SetOffsetsInputs : SetOffsets(in)
    \/ Idle /\ \E groupId \in NameArgs, topic \in TopicNameArgs, fromStart \in EarliestArgs :
                  ResetOffsets(groupId, topic, fromStart)
    \/ Return
    \/ ResetOffsetsAddTargetTopic
    \/ ResetOffsetsRefreshIfNecessary
    \/ SetOffsetsSubscribe
    \/ SetOffsetsDescribeGroup
    \/ ConsumerFetch
    \/ ConsumerStopSettles
    \/ ConsumerRunRejects

SpecOffsets == Init /\ [][NextOffsets]_vars

NextTopicOffsets ==
    \/ Idle /\ \E topic \in TopicArgs : FetchTopicOffsets(topic)
    \/ Return
    \/ FetchTopicOffsetsAddTargetTopic
    \/ FetchTopicOffsetsRefreshIfNecessary
    \/ FetchTopicOffsetsHigh
    \/ FetchTopicOffsetsLow
    \/ FetchTopicOffsetsCatchRefresh
    \/ FetchTopicOffsetsRetry

SpecTopicOffsets == Init /\ [][NextTopicOffsets]_vars

\* createTopics and createPartitions up to the first call of an attempt.
NextCreateValidation ==
    \/ Idle /\ \E topics \in EntriesInputs, wait \in BOOLEAN : CreateTopics(topics, wait)
    \/ Idle /\ \E topicPartitions \in EntriesInputs : CreatePartitions(topicPartitions)
    \/ Return
    \/ CreateTopicsRefresh
    \/ CreatePartitionsRefresh

SpecCreateValidation == Init /\ [][NextCreateValidation]_vars

NextListGroups ==
    \/ ListGroups
    \/ Return
    \/ ListGroupsRefresh
    \/ ListGroupsFindBroker
    \/ ListGroupsRequest

SpecListGroups == Init /\ [][NextListGroups]_vars

\* The client is only given inputs that break a rule of the validation.
NextInvalidCalls ==
    \/ Idle /\ \E topics \in {x \in TopicsInputs : CreateTopicsMalformed(x)},
                  wait \in BOOLEAN : CreateTopics(topics, wait)
    \/ Idle /\ \E x \in {y \in TopicPartitionsInputs : CreatePartitionsMalformed(y)} :
                  CreatePartitions(x)
    \/ Idle /\ \E x \in {y \in DeleteTopicsInputs : DeleteTopicsMalformed(y)} :
                  DeleteTopics(x)
    \/ Idle /\ \E x \in {y \in ResourcesInputs : DescribeConfigsMalformed(y)} :
                  DescribeConfigs(x)
    \/ Idle /\ \E x \in {y \in ResourcesInputs : AlterConfigsMalformed(y)} :
                  AlterConfigs(x)
    \/ Idle /\ \E x \in {y \in AclFilters : AclFilterMalformed(y)} : DescribeAcls(x)
    \/ Idle /\ \E x \in {y \in FiltersInputs : DeleteAclsMalformed(y)} : DeleteAcls(x)
    \/ Idle /\ \E x \in {y \in GroupIdsInputs : DeleteGroupsMalformed(y)} :
                  DeleteGroups(x)
    \/ Idle /\ \E x \in {y \in TopicArgs : FetchTopicOffsetsMalformed(y)} :
                  FetchTopicOffsets(x)
    \/ Idle /\ \E groupId \in NameArgs, topic \in TopicNameArgs :
                  /\ GroupOrTopicMalformed(groupId, topic)
                  /\ FetchOffsets(groupId, topic)
    \/ Idle /\ \E x \in {y \in SetOffsetsInputs : SetOffsetsMalformed(y)} : SetOffsets(x)
    \/ Idle /\ \E groupId \in NameArgs, topic \in TopicNameArgs, fromStart \in EarliestArgs :
                  /\ GroupOrTopicMalformed(groupId, topic)
                  /\ ResetOffsets(groupId, topic, fromStart)
    \/ Return

SpecInvalidCalls == Init /\ [][NextInvalidCalls]_vars

\* An argument the checks of an operation accept: an array of one entry.
OneValidOf(inputs, Validate(_)) ==
    CHOOSE x \in inputs : x.kind = "array" /\ Len(x.items) = 1 /\ Validate(x) = NoError

\* The ten operations that hand their work to the retrier, each called with
\* an argument its checks accept; every call of an attempt is answered well
\* or with an error.  The topic of fetchTopicOffsets has at most one partition.
NextRetriedCalls ==
    \/ Idle /\ CreateAcls(OneValidOf(AclInputs, ValidateCreateAcls))
    \/ Idle /\ DeleteGroups(OneValidOf(GroupIdsInputs, ValidateDeleteGroups))
    \/ Idle /\ \E wait \in BOOLEAN :
                  CreateTopics(OneValidOf(TopicsInputs, ValidateCreateTopics), wait)
    \/ Idle /\ DeleteTopics(OneValidOf(DeleteTopicsInputs, ValidateDeleteTopics))
    \/ Idle /\ CreatePartitions(OneValidOf(TopicPartitionsInputs, ValidateCreatePartitions))
    \/ Idle /\ DescribeConfigs(OneValidOf(ResourcesInputs, ValidateDescribeConfigs))
    \/ Idle /\ AlterConfigs(OneValidOf(ResourcesInputs, ValidateAlterConfigs))
    \/ Idle /\ DescribeAcls(CHOOSE f \in AclFilters : ValidateDescribeAcls(f) = NoError)
    \/ Idle /\ DeleteAcls(OneValidOf(FiltersInputs, ValidateDeleteAcls))
    \/ Idle /\ FetchTopicOffsets([type |-> "string", text |-> TopicText(1)])
    \/ Return
    \/ CreateAclsRefresh
    \/ CreateAclsFindController
    \/ CreateAclsRequest
    \/ DeleteGroupsRefresh
    \/ DeleteGroupsFindCoordinator
    \/ \E c \in inflight : BrokerDeleteGroupsAnswer(c)
    \/ CreateTopicsRefresh
    \/ CreateTopicsFindController
    \/ CreateTopicsRequest
    \/ CreateTopicsPoll
    \/ CreateTopicsPollTimeout
    \/ DeleteTopicsRefresh
    \/ DeleteTopicsFindController
    \/ DeleteTopicsRequest
    \/ DeleteTopicsPostRefresh
    \/ CreatePartitionsRefresh
    \/ CreatePartitionsFindController
    \/ CreatePartitionsRequest
    \/ DescribeConfigsRefresh
    \/ DescribeConfigsFindController
    \/ DescribeConfigsRequest
    \/ AlterConfigsRefresh
    \/ AlterConfigsFindController
    \/ AlterConfigsRequest
    \/ DescribeAclsRefresh
    \/ DescribeAclsFindController
    \/ DescribeAclsRequest
    \/ DeleteAclsRefresh
    \/ DeleteAclsFindController
    \/ DeleteAclsRequest
    \/ FetchTopicOffsetsAddTargetTopic
    \/ FetchTopicOffsetsRefreshIfNecessary
    \/ FetchTopicOffsetsHigh /\ DOMAIN watermarks' \subseteq {0}
    \/ FetchTopicOffsetsLow
    \/ FetchTopicOffsetsCatchRefresh
    \/ FetchTopicOffsetsRetry

SpecRetriedCalls == Init /\ [][NextRetriedCalls]_vars

\* Every awaited call of an attempt settles (the cluster, the brokers and
\* waitFor answer), and the wait of the retrier before an attempt ends.
RetriedAttemptSteps ==
    \/ CreateAclsRefresh
    \/ CreateAclsFindController
    \/ CreateAclsRequest
    \/ DeleteGroupsRefresh
    \/ DeleteGroupsFindCoordinator
    \/ \E c \in inflight : BrokerDeleteGroupsAnswer(c)
    \/ CreateTopicsRefresh
    \/ CreateTopicsFindController
    \/ CreateTopicsRequest
    \/ CreateTopicsPoll
    \/ CreateTopicsPollTimeout
    \/ DeleteTopicsAttemptSteps
    \/ CreatePartitionsRefresh
    \/ CreatePartitionsFindController
    \/ CreatePartitionsRequest
    \/ DescribeConfigsRefresh
    \/ DescribeConfigsFindController
    \/ DescribeConfigsRequest
    \/ AlterConfigsRefresh
    \/ AlterConfigsFindController
    \/ AlterConfigsRequest
    \/ DescribeAclsRefresh
    \/ DescribeAclsFindController
    \/ DescribeAclsRequest
    \/ DeleteAclsRefresh
    \/ DeleteAclsFindController
    \/ DeleteAclsRequest
    \/ FetchTopicOffsetsAddTargetTopic
    \/ FetchTopicOffsetsRefreshIfNecessary
    \/ FetchTopicOffsetsHigh /\ DOMAIN watermarks' \subseteq {0}
    \/ FetchTopicOffsetsLow
    \/ FetchTopicOffsetsCatchRefresh
    \/ FetchTopicOffsetsRetry

FairSpecRetriedCalls == SpecRetriedCalls /\ WF_vars(RetriedAttemptSteps)

(***************************************************************************)
(* Calls in progress at once.  The state the handlers have in common is    *)
(* the cluster: createAcls and deleteAcls touch none of it; deleteTopics,  *)
(* getTopicMetadata, fetchTopicOffsets, fetchOffsets and resetOffsets      *)
(* write cluster.targetTopics.                                             *)
(***************************************************************************)
\* No call is in progress besides the running one.
NoOtherCall == parked = NoCalls

\* A handler that has not settled is set aside for c; the answer of a settled
\* call is taken (Return) before the client turns to another call.
SwitchPendingCall == \E c \in BagToSet(parked) : pc # "done" /\ SwitchCall(c)

\* One valid entry, as the `acl` of createAcls and the `filters` of deleteAcls.
OneValidAcl == [kind |-> "array", items |-> <<ValidAclEntry>>]

\* { topics: [t] }
OneTopic(t) == [kind |-> "array", items |-> <<t>>]

\* The topic of the deleteTopics and getTopicMetadata calls of
\* SpecOverlappingTopicCalls: the first one.
OverlapTopics == {t \in TopicNames : \A u \in TopicNames : t <= u}

\* createAcls and deleteAcls calls, any of them in progress together.
NextOverlappingAcls ==
    \/ Idle /\ CreateAcls(OneValidAcl)
    \/ Idle /\ DeleteAcls(OneValidAcl)
    \/ Return
    \/ CreateAclsRefresh
    \/ CreateAclsFindController
    \/ CreateAclsRequest
    \/ DeleteAclsRefresh
    \/ DeleteAclsFindController
    \/ DeleteAclsRequest
    \/ SwitchPendingCall

SpecOverlappingAcls == Init /\ [][NextOverlappingAcls]_vars

\* deleteTopics and getTopicMetadata calls about one topic, any of them in
\* progress together; the other topics become target topics through earlier
\* calls.
NextOverlappingTopicCalls ==
    \/ Idle /\ \E t \in OverlapTopics : DeleteTopics(OneTopic(t))
    \/ Idle /\ \E t \in OverlapTopics : GetTopicMetadata(OneTopic(t))
    \/ Return
    \/ DeleteTopicsRefresh
    \/ DeleteTopicsFindController
    \/ DeleteTopicsRequest
    \/ DeleteTopicsPostRefresh
    \/ GetTopicMetadataAddTargetTopics
    \/ GetTopicMetadataRefreshIfNecessary
    \/ NoOtherCall /\ \E t \in TopicNames : TopicCreatedElsewhere(t)
    \/ NoOtherCall /\ \E t \in TopicNames : AddTargetTopic(t)
    \/ SwitchPendingCall

SpecOverlappingTopicCalls == Init /\ [][NextOverlappingTopicCalls]_vars

\* The client: every operation with every input of the models above, up to
\* MaxCalls calls in progress together.
NextOverlappingCalls ==
    \/ NextAcls
    \/ NextGroups
    \/ NextTopics
    \/ NextDeleteTopics
    \/ NextControllerOps
    \/ NextFetchOffsets
    \/ NextTopicMetadata
    \/ NextOffsets
    \/ NextTopicOffsets
    \/ NextListGroups
    \/ SwitchPendingCall

SpecOverlappingCalls == Init /\ [][NextOverlappingCalls]_vars

(***************************************************************************)
(* Properties of createAcls.                                               *)
(***************************************************************************)
\* The rules of createAcls, numbered in the order the specification gives:
\* array shape, principal, host, resourceName, operation,
\* resourcePatternType, permissionType, resourceType.
AclRuleViolatedBy(r, e) ==
    CASE r = 2 -> e.principal # "string"
      [] r = 3 -> e.host # "string"
      [] r = 4 -> e.resourceName # "string"
      [] r = 5 -> e.operation \notin OPERATION_TYPES
      [] r = 6 -> e.resourcePatternType \notin RESOURCE_PATTERN_TYPES
      [] r = 7 -> e.permissionType \notin PERMISSION_TYPES
      [] r = 8 -> e.resourceType \notin RESOURCE_TYPES
      [] OTHER -> FALSE

AclBatchViolates(acl, r) ==
    IF r = 1
    THEN acl.kind # "array" \/ Len(acl.items) = 0
    ELSE acl.kind = "array" /\ \E i \in DOMAIN acl.items : AclRuleViolatedBy(r, acl.items[i])

AclMalformed(acl) == \E r \in 1..8 : AclBatchViolates(acl, r)

\* The rule an error message of createAcls names.
AclRuleOfMessage(m) ==
    CASE m \in {"Invalid ACL array undefined", "Invalid ACL array this-is-not-an-array",
                "Empty ACL array"} -> 1
      [] m = "Invalid ACL array, the principals have to be a valid string" -> 2
      [] m = "Invalid ACL array, the hosts have to be a valid string" -> 3
      [] m = "Invalid ACL array, the resourceNames have to be a valid string" -> 4
      [] m = "Invalid operation type 123" -> 5
      [] m = "Invalid resource pattern type 123" -> 6
      [] m = "Invalid permission type 123" -> 7
      [] m = "Invalid resource type 123" -> 8
      [] OTHER -> 0

\* C1: a malformed ACL batch (not an array, empty, or with one entry that
\* breaks a rule, whatever the other entries) makes createAcls reject with the
\* error of a rule the batch violates (echoing an entry that violates it) and
\* no call reaches cluster.refreshMetadata, cluster.findControllerBroker or
\* broker.createAcls.
C1_MalformedAclRejectedBeforeIO ==
    (op = "createAcls" /\ AclMalformed(aclInput)) =>
        /\ pc = "done"
        /\ result.status = "rejected"
        /\ result.error.name = "KafkaJSNonRetriableError"
        /\ AclBatchViolates(aclInput, AclRuleOfMessage(result.error.message))
        /\ result.error.entry # 0 =>
               AclRuleViolatedBy(AclRuleOfMessage(result.error.message),
                                 aclInput.items[result.error.entry])
        /\ ioLog = <<>>

\* A batch whose first entry is valid and whose second is not was rejected.
C1_Witness ==
    /\ op = "createAcls" /\ pc = "done"
    /\ Len(aclInput.items) = 2
    /\ aclInput.items[1] = ValidAclEntry
    /\ aclInput.items[2] # ValidAclEntry
    /\ result.status = "rejected"

\* C2: when a batch violates several rules, the single error raised is the
\* error of the first violated rule in the order array shape, principal, host,
\* resourceName, operation, resourcePatternType, permissionType, resourceType,
\* wherever the offending entries stand in the array.
C2_FirstViolatedRuleDecides ==
    (op = "createAcls" /\ AclMalformed(aclInput)) =>
        /\ result.status = "rejected"
        /\ LET r == AclRuleOfMessage(result.error.message)
           IN  /\ AclBatchViolates(aclInput, r)
               /\ \A q \in 1..8 : AclBatchViolates(aclInput, q) => r <= q

\* The first entry breaks only the last rule, the second entry breaks an
\* earlier one, and the earlier rule's error was raised.
C2_Witness ==
    /\ op = "createAcls" /\ pc = "done"
    /\ Len(aclInput.items) = 2
    /\ aclInput.items[1] = [ValidAclEntry EXCEPT !.resourceType = 123]
    /\ aclInput.items[2] = [ValidAclEntry EXCEPT !.host = "number", !.operation = 123]
    /\ result.error.message = "Invalid ACL array, the hosts have to be a valid string"

(***************************************************************************)
(* Properties of deleteGroups.                                             *)
(***************************************************************************)
\* The first attempt got every response, some with errorCode 0 and some
\* without: the target set holds the failed ids, fewer than were given.
ShrunkToFailedIds ==
    /\ op = "deleteGroups"
    /\ clonedGroupIds # <<>>
    /\ Len(clonedGroupIds) < Len(groupIds.items)

\* C3: when the first attempt of deleteGroups ends with some groups deleted
\* and some groups failed, a second attempt is made, and it resolves
\* coordinators and issues delete calls only for the ids that failed.
C3_PartialFailureIsRetried ==
    ShrunkToFailedIds =>
        /\ attempt >= 1
        /\ \A i \in DOMAIN lookups : lookups[i][1] \in SeqToSet(clonedGroupIds)
        /\ \A i \in DOMAIN sent : SeqToSet(sent[i].groups) \subseteq SeqToSet(clonedGroupIds)

\* C4: whenever deleteGroups, called with N distinct group ids, resolves,
\* after any number of attempts, the list returned has exactly N entries and
\* holds every id of the call exactly once.
C4_SuccessCoversEveryId ==
    (op = "deleteGroups" /\ pc = "done" /\ result.status = "resolved") =>
        /\ Len(results) = Len(groupIds.items)
        /\ \A i \in DOMAIN groupIds.items :
              Cardinality({j \in DOMAIN results :
                              results[j].groupId = groupIds.items[i]}) = 1

\* The call resolved after a retry, its two ids answered by two brokers (the
\* list is in the order of the node ids, not of the argument).
C4_Witness ==
    /\ op = "deleteGroups" /\ pc = "done" /\ result.status = "resolved"
    /\ attempt >= 1
    /\ Len(groupIds.items) = 2
    /\ Len(results) = 2
    /\ results[1].groupId = groupIds.items[2]

\* C5: within one deleteGroups call, once a broker has answered a delete call
\* for a group id with errorCode 0, no later attempt sends that id to a
\* broker again.
C5_NoResendAfterSuccess ==
    op = "deleteGroups" => resent = {}

\* C6: in every attempt the remaining ids are partitioned by the node id
\* that findGroupCoordinator returned for them in that attempt: one
\* broker.deleteGroups call per distinct coordinator, at most one per broker,
\* every remaining id in exactly one call, each call holding the ids whose
\* lookup in this attempt returned its node.
C6_OneCallPerCoordinator ==
    (op = "deleteGroups" /\ pc = "awaitAll") =>
        LET coordinators == {lookups[i][2] : i \in DOMAIN lookups}
        IN  /\ Len(lookups) = Len(clonedGroupIds)
            /\ \A i \in DOMAIN lookups : lookups[i][1] = clonedGroupIds[i]
            /\ Len(sent) = Cardinality(coordinators)
            /\ Len(sent) <= NumBrokers
            /\ \A n \in coordinators :
                  Cardinality({i \in DOMAIN sent : sent[i].node = n}) = 1
            /\ \A i \in DOMAIN sent :
                  /\ sent[i].node \in coordinators
                  /\ SeqToSet(sent[i].groups) =
                        {lookups[k][1] : k \in {k \in DOMAIN lookups :
                                                  lookups[k][2] = sent[i].node}}
            /\ \A k \in DOMAIN clonedGroupIds :
                  Cardinality({p \in {<<i, j>> : i \in DOMAIN sent, j \in 1..MaxGroups} :
                                  /\ p[2] \in DOMAIN sent[p[1]].groups
                                  /\ sent[p[1]].groups[p[2]] = clonedGroupIds[k]}) = 1
            /\ inflight = SeqToSet(sent) \ {c \in SeqToSet(sent) :
                                               \E x \in res : x.node = c.node}

\* A second attempt sent two calls, and a group's coordinator is not the one
\* the first attempt was given.
C6_Witness ==
    /\ op = "deleteGroups" /\ pc = "awaitAll"
    /\ attempt >= 1
    /\ moved
    /\ Len(sent) = 2

(***************************************************************************)
(* Claims about createTopics.                                              *)
(***************************************************************************)
\* The broker.createTopics requests of the call, and those that succeeded.
CreateCalls == {i \in DOMAIN ioLog : ioLog[i].call = "broker.createTopics"}
CreateOks == {i \in CreateCalls : ioLog[i].outcome = "ok"}

\* The leader polls that failed with LEADER_NOT_AVAILABLE.
NotYetPolls ==
    {i \in DOMAIN ioLog : /\ ioLog[i].call = "broker.metadata"
                          /\ ioLog[i].outcome = "LEADER_NOT_AVAILABLE"}

\* The timer of the leader poll has fired in this call.
TimedOut ==
    /\ op = "createTopics"
    /\ \E i \in DOMAIN ioLog : ioLog[i].call = "waitFor"

\* C7: with waitForLeaders, createTopics resolves true only when, in the
\* attempt that resolves, broker.createTopics succeeded and a later
\* broker.metadata poll completed without error, nothing but polls answered
\* LEADER_NOT_AVAILABLE between the two; and a poll answered
\* LEADER_NOT_AVAILABLE leaves the call pending in the same attempt, followed
\* only by another poll or by the timer of the poll: it neither rejects the
\* call nor starts another attempt.
C7_TrueOnlyAfterLeadersSeen ==
    (op = "createTopics" /\ waitForLeaders) =>
        /\ result = Resolved("true") =>
              /\ Len(ioLog) >= 2
              /\ ioLog[Len(ioLog)] =
                    [call |-> "broker.metadata", attempt |-> attempt, outcome |-> "ok"]
              /\ \E i \in CreateOks :
                    /\ ioLog[i].attempt = attempt
                    /\ \A k \in (i + 1)..(Len(ioLog) - 1) : k \in NotYetPolls
        /\ \A k \in NotYetPolls :
              IF k = Len(ioLog)
              THEN pc = "poll" /\ result = Pending /\ attempt = ioLog[k].attempt
              ELSE /\ ioLog[k + 1].attempt = ioLog[k].attempt
                   /\ ioLog[k + 1].call \in {"broker.metadata", "waitFor"}

\* The call resolved true after a poll that answered LEADER_NOT_AVAILABLE.
C7_Witness ==
    /\ op = "createTopics" /\ waitForLeaders
    /\ topicsInput.items # <<>>
    /\ result = Resolved("true")
    /\ NotYetPolls # {}

\* C8 as stated: when the leader poll times out the call rejects with the
\* timeout error, no further attempt is made, and broker.createTopics has
\* been called exactly once in the call.
C8_TimeoutAfterExactlyOneCreate ==
    TimedOut =>
        /\ pc = "done"
        /\ result.status = "rejected"
        /\ result.error.message = "Timed out while waiting for topic leaders"
        /\ ioLog[Len(ioLog)].call = "waitFor"
        /\ Cardinality(CreateCalls) = 1

\* C8: when the leader poll times out the call rejects with the timeout
\* error and the timeout is the last thing the call does: no further attempt
\* is made and broker.createTopics is not called again.  broker.createTopics
\* was called exactly once, successfully, in the attempt that timed out, and
\* at most once in each earlier attempt, so exactly once in the call when no
\* earlier attempt failed with NOT_CONTROLLER.
C8_TimeoutEndsCall ==
    TimedOut =>
        /\ pc = "done"
        /\ result.status = "rejected"
        /\ result.error.message = "Timed out while waiting for topic leaders"
        /\ ioLog[Len(ioLog)] =
              [call |-> "waitFor", attempt |-> attempt, outcome |-> "timeout"]
        /\ Cardinality({i \in CreateCalls : ioLog[i].attempt = attempt}) = 1
        /\ \A i \in CreateCalls : ioLog[i].attempt = attempt => i \in CreateOks
        /\ \A a \in 0..attempt :
              Cardinality({i \in CreateCalls : ioLog[i].attempt = a}) <= 1
        /\ (\A i \in DOMAIN ioLog : ioLog[i].outcome # "NOT_CONTROLLER") =>
              Cardinality(CreateCalls) = 1

\* The poll timed out in a second attempt, the first one having failed at
\* broker.createTopics with NOT_CONTROLLER.
C8_Witness ==
    /\ TimedOut
    /\ attempt = 1
    /\ Cardinality(CreateCalls) = 2

\* C9: broker.createTopics answering TOPIC_ALREADY_EXISTS makes the call
\* resolve false in the same attempt; true is returned only when
\* broker.createTopics succeeded in the attempt that returns; a call none of
\* whose requests failed resolves true; and a call for a topic of the call
\* before, which resolved true, never has broker.createTopics succeed and
\* resolves, if it resolves, false.
C9_TrueThenFalse ==
    op = "createTopics" =>
        /\ \A k \in DOMAIN ioLog :
              ioLog[k].outcome = "TOPIC_ALREADY_EXISTS" =>
                  /\ k = Len(ioLog)
                  /\ pc = "done"
                  /\ result = Resolved("false")
                  /\ attempt = ioLog[k].attempt
        /\ result = Resolved("true") =>
              \E i \in CreateOks : ioLog[i].attempt = attempt
        /\ ( /\ pc = "done"
             /\ ioLog # <<>>
             /\ \A k \in DOMAIN ioLog : ioLog[k].outcome = "ok" ) =>
              result = Resolved("true")
        /\ SeqToSet(topicsInput.items) \cap lastCreate # {} =>
              /\ CreateOks = {}
              /\ result.status = "resolved" => result = Resolved("false")

\* The second of two calls for the same topic: the first resolved true, the
\* second resolved false on TOPIC_ALREADY_EXISTS.
C9_Witness ==
    /\ op = "createTopics" /\ pc = "done"
    /\ lastCreate # {}
    /\ SeqToSet(topicsInput.items) = lastCreate
    /\ attempt = 0
    /\ ioLog # <<>>
    /\ ioLog[Len(ioLog)].outcome = "TOPIC_ALREADY_EXISTS"
    /\ result = Resolved("false")

(***************************************************************************)
(* Claims about setOffsets and resetOffsets.                               *)
(***************************************************************************)
\* C10: when the group described for setOffsets, or for resetOffsets, is in
\* a state other than Empty and Dead, the call rejects with a non-retriable
\* error that names the state, and consumer.run, consumer.pause and
\* consumer.seek are never called for that call: the consumer is never
\* started.
C10_LiveGroupIsRefused ==
    (op \in {"setOffsets", "resetOffsets"} /\ description \notin {"", "Empty", "Dead"}) =>
        /\ pc = "done"
        /\ result.status = "rejected"
        /\ result.error.name = "KafkaJSNonRetriableError"
        /\ result.error.message =
              "The consumer group must have no running instances, current state: "
                  \o description
        /\ \A i \in DOMAIN consumerLog :
              consumerLog[i].call \notin {"on", "run", "pause", "seek", "stop"}
        /\ consumerState = "created"
        /\ fetches = 0

\* resetOffsets was refused for a group in state Stable, after the two calls
\* that come before the check.
C10_Witness ==
    /\ op = "resetOffsets" /\ pc = "done"
    /\ description = "Stable"
    /\ Len(offInput.partitions.items) = MaxPartitions
    /\ Len(consumerLog) = 2

\* The seek calls made on the consumer, in order, and the places of the stop
\* calls in the log.
IsSeek(c) == c.call = "seek"
SeeksMade == SelectSeq(consumerLog, IsSeek)
StopsAt == {i \in DOMAIN consumerLog : consumerLog[i].call = "stop"}

\* C11: when setOffsets resolves, the group was Empty or Dead, the seek
\* calls made on the consumer are exactly one per entry of the request, with
\* the partition and the offset of the entry, all of them made before the
\* first consumer.stop(); the offsets committed afterwards are those targets
\* (for a partition listed more than once, the target of its last entry) and
\* no offset is committed for a partition the request does not list.
C11_ResolvedAfterEverySeek ==
    (op \in {"setOffsets", "resetOffsets"} /\ result.status = "resolved") =>
        LET items == offInput.partitions.items
        IN  /\ description \in {"Empty", "Dead"}
            /\ Len(SeeksMade) = Len(items)
            /\ \A i \in DOMAIN items :
                  /\ SeeksMade[i].partition = items[i].partition
                  /\ SeeksMade[i].offset = items[i].offset
            /\ \A i \in DOMAIN consumerLog :
                  IsSeek(consumerLog[i]) => \A j \in StopsAt : i < j
            /\ StopsAt # {}
            /\ \A i \in DOMAIN items :
                  (\A j \in DOMAIN items : j > i => items[j].partition # items[i].partition)
                      => <<items[i].partition, items[i].offset>> \in committed
            /\ \A x \in committed : \E i \in DOMAIN items : items[i].partition = x[1]
            /\ \A x \in committed, y \in committed : x[1] = y[1] => x = y

\* setOffsets resolved for two partitions, listed out of order with
\* different targets, and both targets are committed.
C11_Witness ==
    /\ op = "setOffsets" /\ pc = "done" /\ result.status = "resolved"
    /\ Len(offInput.partitions.items) = 2
    /\ offInput.partitions.items[1] = [partition |-> 1, offset |-> 0]
    /\ offInput.partitions.items[2] = [partition |-> 0, offset |-> 1]
    /\ committed = {<<1, 0>>, <<0, 1>>}

\* C12: setOffsets resolves only after a FETCH event was observed and a
\* consumer.stop() started by a FETCH event has completed; and whenever the
\* promise of consumer.run or of a consumer.stop rejects, setOffsets is
\* rejected with that error, and so never resolved.
C12_ResolvesOnlyThroughStop ==
    op \in {"setOffsets", "resetOffsets"} =>
        /\ result.status = "resolved" =>
              /\ fetches >= 1
              /\ \E i \in DOMAIN settlements :
                    settlements[i] = Settlement("stop", Resolved("undefined"))
        /\ \A i \in DOMAIN settlements :
              settlements[i].outcome.status = "rejected" =>
                  result = settlements[i].outcome

(***************************************************************************)
(* Claims about fetchTopicOffsets.                                         *)
(***************************************************************************)
\* The offset the cluster answered for partition p in `answer`.
AnsweredOffsets(answer, p) ==
    {answer[j].offset : j \in {k \in DOMAIN answer : answer[k].partition = p}}

\* C13: when fetchTopicOffsets resolves for a topic with P partitions, the
\* array returned has exactly P entries, one for each partition id; the high
\* of an entry is the offset the from-end query answered for its partition,
\* its low is the offset the from-beginning query answered for the same
\* partition, whatever the order of the two answers, its offset equals its
\* high, and its low is at most its high.
C13_OffsetsPairedByPartition ==
    (op = "fetchTopicOffsets" /\ result.status = "resolved") =>
        /\ Len(offsetsReturned) = Cardinality(DOMAIN watermarks)
        /\ \A p \in DOMAIN watermarks :
              Cardinality({i \in DOMAIN offsetsReturned :
                              offsetsReturned[i].partition = p}) = 1
        /\ \A i \in DOMAIN offsetsReturned :
              /\ offsetsReturned[i].partition \in DOMAIN watermarks
              /\ AnsweredOffsets(highPartitions, offsetsReturned[i].partition)
                    = {offsetsReturned[i].high}
              /\ AnsweredOffsets(lowPartitions, offsetsReturned[i].partition)
                    = {offsetsReturned[i].low}
              /\ offsetsReturned[i].offset = offsetsReturned[i].high
              /\ offsetsReturned[i].low <= offsetsReturned[i].high

(***************************************************************************)
(* Claims about deleteTopics.                                              *)
(***************************************************************************)
\* What C14 says of every state of a deleteTopics call.
C14_State ==
    op = "deleteTopics" =>
        LET names == TopicTexts(SeqToSet(dtInput.items))
        IN  /\ ~interleaved =>
                  /\ targetTopics \subseteq targetBefore
                  /\ targetBefore \ names \subseteq targetTopics
            /\ result.status = "resolved" =>
                  /\ ~interleaved => targetTopics = targetBefore \ names
                  /\ Len(dtLog) = 4
                  /\ dtLog[3] = DtEvent("broker.deleteTopics", "ok")
                  /\ dtLog[4] = DtEvent("refreshMetadata", "ok")

\* What C14 says of every step that removes a topic from cluster.targetTopics,
\* and of every step in which broker.deleteTopics succeeds.  A step that
\* leaves `parked` as it is is a step of the running handler.
C14_Step ==
    /\ ~(targetTopics \subseteq targetTopics') =>
          /\ op = "deleteTopics" /\ pc = "request"
          /\ parked' = parked
          /\ attempt' = attempt /\ pc' = "postRefresh"
          /\ dtLog' = Append(dtLog, DtEvent("broker.deleteTopics", "ok"))
    /\ (/\ op = "deleteTopics" /\ pc = "request"
        /\ parked' = parked
        /\ pc' = "postRefresh") =>
          targetTopics' = targetTopics \ TopicTexts(SeqToSet(dtInput.items))

\* C14: a topic leaves cluster.targetTopics only in the step in which
\* broker.deleteTopics of the current attempt has succeeded; after that step
\* no topic of the request is in cluster.targetTopics and every other topic
\* is still there; the call resolves only after broker.deleteTopics and then
\* a successful cluster.refreshMetadata, and when it resolves, with no step
\* of another call in between, cluster.targetTopics is what it was when the
\* call was made, less the topics of the request.  This holds also of a
\* deleteTopics call made while getTopicMetadata calls and other deleteTopics
\* calls are in progress.
C14_PrunedOnlyAfterDelete ==
    []C14_State /\ [][C14_Step]_vars

\* A call resolved in a second attempt, removing one of two target topics,
\* while a getTopicMetadata call and another deleteTopics call were in
\* progress.
C14_Witness ==
    /\ op = "deleteTopics" /\ pc = "done" /\ result.status = "resolved"
    /\ attempt = 1
    /\ ~interleaved
    /\ \E c \in BagToSet(parked) :
          c.op = "getTopicMetadata" /\ c.pc = "refreshIfNecessary"
    /\ \E c \in BagToSet(parked) :
          c.op = "deleteTopics" /\ c.pc = "refresh"
    /\ targetBefore = {TopicText(1), TopicText(2)}
    /\ dtInput.items = <<1>>
    /\ targetTopics = {TopicText(2)}

\* What C15 says of every state of a deleteTopics call: the request of an
\* attempt follows a metadata refresh and a controller resolution of that
\* attempt, and a call whose every attempt was answered
\* UNKNOWN_TOPIC_OR_PARTITION has used up the retries and is rejected with it.
C15_State ==
    op = "deleteTopics" =>
        /\ pc = "request" =>
              dtLog = <<DtEvent("refreshMetadata", "ok"),
                        DtEvent("findControllerBroker", "ok")>>
        /\ (pc = "done" /\ unknownAnswers = attempt + 1) =>
              /\ attempt = MaxRetries
              /\ result.status = "rejected"
              /\ result.error = KafkaJSProtocolError("UNKNOWN_TOPIC_OR_PARTITION")

\* What C15 says of the step in which the broker answers
\* UNKNOWN_TOPIC_OR_PARTITION while a retry is left.
C15_Step ==
    (unknownAnswers' = unknownAnswers + 1 /\ attempt < MaxRetries) =>
        /\ pc' = "refresh"
        /\ attempt' = attempt + 1
        /\ result' = Pending
        /\ dtLog' = <<>>

\* C15: when broker.deleteTopics answers UNKNOWN_TOPIC_OR_PARTITION, the call
\* starts a new attempt (metadata refresh, controller resolution, request)
\* as long as a retry is left, so the error is never fatal on the first
\* attempt; a call answered so on every attempt is rejected with
\* UNKNOWN_TOPIC_OR_PARTITION once the retries are used up; and every call
\* terminates.
C15_UnknownTopicRetriedThenRejected ==
    /\ []C15_State
    /\ [][C15_Step]_vars
    /\ (op = "deleteTopics") ~> (pc = "done")

\* A call for a topic that does not exist, answered
\* UNKNOWN_TOPIC_OR_PARTITION in every attempt and rejected after the last.
C15_Witness ==
    /\ op = "deleteTopics" /\ pc = "done"
    /\ dtInput.items = <<1>> /\ 1 \notin existingTopics
    /\ attempt = MaxRetries /\ unknownAnswers = MaxRetries + 1
    /\ result.status = "rejected"
    /\ result.error.type = "UNKNOWN_TOPIC_OR_PARTITION"

(***************************************************************************)
(* Claims about validation.                                                *)
(***************************************************************************)
\* The input of the current call breaks a rule of the operation's validation.
InputMalformed ==
    CASE op = "createTopics" -> CreateTopicsMalformed(topicsInput)
      [] op = "createPartitions" -> CreatePartitionsMalformed(cpInput)
      [] op = "deleteTopics" -> DeleteTopicsMalformed(dtInput)
      [] op = "describeConfigs" -> DescribeConfigsMalformed(ctlInput)
      [] op = "alterConfigs" -> AlterConfigsMalformed(ctlInput)
      [] op = "describeAcls" -> AclFilterMalformed(ctlInput)
      [] op = "deleteAcls" -> DeleteAclsMalformed(ctlInput)
      [] op = "deleteGroups" -> DeleteGroupsMalformed(groupIds)
      [] op = "fetchTopicOffsets" -> FetchTopicOffsetsMalformed(ftoTopic)
      [] op = "fetchOffsets" -> GroupOrTopicMalformed(foInput.groupId, foInput.topic)
      [] op = "setOffsets" -> SetOffsetsMalformed(offInput)
      [] op = "resetOffsets" -> GroupOrTopicMalformed(offInput.groupId, offInput.topic)
      [] OTHER -> FALSE

\* No call was made on the cluster, on a broker or on a consumer, and no
\* consumer was created.
NoCollaboratorCall ==
    /\ ioLog = <<>> /\ dtLog = <<>> /\ clusterCalls = 0
    /\ lookups = <<>> /\ sent = <<>>
    /\ consumerLog = <<>> /\ consumerState = "none"
    /\ addedTopics = <<>> /\ coordinator = 0 /\ sentTo = 0

\* C16: a call of createTopics, createPartitions, deleteTopics,
\* describeConfigs, alterConfigs, describeAcls, deleteAcls, deleteGroups,
\* fetchTopicOffsets, fetchOffsets, setOffsets or resetOffsets whose input
\* breaks a rule of the validation is rejected with a KafkaJSNonRetriableError
\* with no call made on the cluster, a broker or a consumer, and with no
\* attempt of the retrier started.
C16_InvalidInputRejectedBeforeIO ==
    InputMalformed =>
        /\ pc = "done"
        /\ result.status = "rejected"
        /\ result.error.name = "KafkaJSNonRetriableError"
        /\ attempt = 0
        /\ NoCollaboratorCall

\* createPartitions was given the same topic twice and has rejected the call.
C16_Witness ==
    /\ op = "createPartitions" /\ pc = "done"
    /\ cpInput.items = <<1, 1>>
    /\ result.status = "rejected"
    /\ result.error.message =
         "Invalid topic partitions array, it cannot have multiple entries for the same topic"
    /\ NoCollaboratorCall

(***************************************************************************)
(* Claims about getTopicMetadata.                                          *)
(***************************************************************************)
\* C17: a getTopicMetadata call whose topics list holds a falsy entry is
\* rejected with 'Invalid topic', cluster.addTargetTopic has been called for
\* no entry of the list, and cluster.targetTopics is what it was when the
\* call was made.
C17_FalsyEntryRejectedBeforeIO ==
    (op = "getTopicMetadata" /\ FalsyTopic \in SeqToSet(gtmInput.items)) =>
        /\ pc = "done"
        /\ result.status = "rejected"
        /\ result.error.message = "Invalid topic " \o ToString(FalsyTopic)
        /\ addedTopics = <<>>
        /\ ioLog = <<>>
        /\ targetTopics = targetBefore

(***************************************************************************)
(* Claims about the operations sent to the controller.                     *)
(***************************************************************************)
ControllerCallNames ==
    {"createPartitions", "describeConfigs", "alterConfigs", "createAcls",
     "describeAcls", "deleteAcls"}

\* The call of the attempt that failed in this step, with its error type.
FailedInStep ==
    /\ Len(ioLog') = Len(ioLog) + 1
    /\ ioLog'[Len(ioLog')].outcome # "ok"

\* What C18 says of a step of one of the six operations.
C18_Step ==
    op \in ControllerCallNames =>
        /\ FailedInStep =>
              LET t == ioLog'[Len(ioLog')].outcome
              IN  IF t = "NOT_CONTROLLER" /\ attempt < MaxRetries
                  THEN attempt' = attempt + 1 /\ pc' = "refresh" /\ result' = Pending
                  ELSE /\ attempt' = attempt
                       /\ pc' = "done"
                       /\ result' = Rejected(KafkaJSProtocolError(t))
        /\ (attempt' # attempt /\ pc' # "idle") =>
              /\ FailedInStep
              /\ ioLog'[Len(ioLog')].outcome = "NOT_CONTROLLER"
              /\ ioLog'[Len(ioLog')].attempt = attempt

\* C18: in createPartitions, describeConfigs, alterConfigs, createAcls,
\* describeAcls and deleteAcls an attempt is followed by another one exactly
\* when it failed with NOT_CONTROLLER and a retry is left; a failure of any
\* other type ends the call in that attempt, rejected with that very error.
C18_RetryOnlyOnNotController ==
    [][C18_Step]_vars

\* describeConfigs retried after NOT_CONTROLLER and was then rejected, in its
\* second attempt, with UNKNOWN_TOPIC_OR_PARTITION.
C18_Witness ==
    /\ op = "describeConfigs" /\ pc = "done"
    /\ attempt = 1
    /\ result = Rejected(KafkaJSProtocolError("UNKNOWN_TOPIC_OR_PARTITION"))
    /\ \E i \in DOMAIN ioLog :
          ioLog[i].attempt = 0 /\ ioLog[i].outcome = "NOT_CONTROLLER"
    /\ ioLog[Len(ioLog)] =
          [call |-> "broker.describeConfigs", attempt |-> 1,
           outcome |-> "UNKNOWN_TOPIC_OR_PARTITION"]

(***************************************************************************)
(* Claims about routing.                                                   *)
(***************************************************************************)
\* The event is a metadata refresh that was made: cluster.refreshMetadata, or
\* a cluster.refreshMetadataIfNecessary that did refresh.
IsRefresh(ev) ==
    \/ ev.call = "refreshMetadata" /\ ev.outcome = "ok"
    \/ ev.call = "refreshMetadataIfNecessary" /\ ev.outcome = "refreshed"

\* C19: whenever an operation resolves the controller or a group
\* coordinator, the metadata was refreshed earlier in the same attempt, and
\* the request is sent to the node resolved in that attempt.
C19_RefreshBeforeNodeResolution ==
    /\ \A i \in DOMAIN ioLog :
          ioLog[i].call \in {"findControllerBroker", "findGroupCoordinator"} =>
              \E j \in 1..(i - 1) :
                  ioLog[j].attempt = ioLog[i].attempt /\ IsRefresh(ioLog[j])
    /\ sentTo # 0 => sentTo = coordinator

(***************************************************************************)
(* Claims about the end of the retries.                                    *)
(***************************************************************************)
\* The error types for which deleteTopics asks the retrier for another attempt.
RetriableInDeleteTopics == {"NOT_CONTROLLER", "UNKNOWN_TOPIC_OR_PARTITION"}

\* The operations that run their handler under the retrier.
RetriedCallNames ==
    {"createTopics", "createPartitions", "deleteTopics", "fetchTopicOffsets",
     "describeConfigs", "alterConfigs", "deleteGroups", "describeAcls", "deleteAcls",
     "createAcls"}

\* The error types for which the catch of an operation throws the error
\* again, for the retrier, instead of bailing out.
RetriedErrorTypes(name) ==
    IF name = "deleteTopics" THEN RetriableInDeleteTopics
    ELSE IF name = "deleteGroups" THEN {"NOT_CONTROLLER", "COORDINATOR_NOT_AVAILABLE"}
    ELSE IF name = "fetchTopicOffsets" THEN {"UNKNOWN_TOPIC_OR_PARTITION"}
    ELSE {"NOT_CONTROLLER"}

\* In this step the attempt of the running handler ends with an error of type
\* t thrown for the retrier, as the calls the handler made show.  deleteTopics
\* logs them in dtLog, which is emptied when another attempt begins: the
\* count of the UNKNOWN_TOPIC_OR_PARTITION answers of broker.deleteTopics
\* shows the throw of a step that leaves dtLog empty.  fetchTopicOffsets
\* throws after the refreshMetadata of its catch: the error of the try block
\* when that refresh was answered well, the error of the refresh otherwise.
ThrownInStep(t) ==
    IF op = "deleteTopics"
    THEN /\ t \in RetriedErrorTypes(op)
         /\ \/ /\ Len(dtLog') = Len(dtLog) + 1
               /\ dtLog'[Len(dtLog')].outcome = t
            \/ /\ unknownAnswers' = unknownAnswers + 1
               /\ t = "UNKNOWN_TOPIC_OR_PARTITION"
    ELSE IF op = "fetchTopicOffsets"
    THEN /\ pc = "catchRefresh"
         /\ Len(ioLog') = Len(ioLog) + 1
         /\ ioLog[Len(ioLog)].outcome \in RetriedErrorTypes(op)
         /\ t = IF ioLog'[Len(ioLog')].outcome = "ok"
                THEN ioLog[Len(ioLog)].outcome
                ELSE ioLog'[Len(ioLog')].outcome
    ELSE /\ Len(ioLog') = Len(ioLog) + 1
         /\ ioLog'[Len(ioLog')].outcome = t
         /\ t \in RetriedErrorTypes(op)

\* What C20 says of every state of a call of a retried operation: no attempt
\* beyond the retries the policy allows, and a call rejected with an error of
\* a type its catch throws again has used them all and delivers that error as
\* a broker or the cluster raised it, not wrapped.
C20_State ==
    op \in RetriedCallNames =>
        /\ attempt <= MaxRetries
        /\ \A i \in DOMAIN ioLog : ioLog[i].attempt <= attempt
        /\ (pc = "done" /\ result.status = "rejected"
                /\ result.error.type \in RetriedErrorTypes(op)) =>
              /\ attempt = MaxRetries
              /\ result.error = KafkaJSProtocolError(result.error.type)

\* What C20 says of a step in which an attempt ends with a retriable error:
\* while the policy allows a retry the call stays pending and the next
\* attempt is counted; the last attempt the policy allows ends the call,
\* rejected with the error that attempt threw.
C20_Step ==
    \A t \in ErrorTypes :
        (op \in RetriedCallNames /\ parked' = parked /\ ThrownInStep(t)) =>
            IF attempt < MaxRetries
            THEN /\ attempt' = attempt + 1
                 /\ pc' # "done"
                 /\ result' = Pending
            ELSE /\ attempt' = attempt
                 /\ pc' = "done"
                 /\ result' = Rejected(KafkaJSProtocolError(t))

\* C20: a call of a retried operation whose attempts all fail with a retriable
\* error makes no more attempts than the retry policy allows, then ends
\* rejected, and the error the caller gets is the one the last attempt threw,
\* as it was thrown.
C20_LastErrorAfterBoundedRetries ==
    /\ []C20_State
    /\ [][C20_Step]_vars
    /\ (op \in RetriedCallNames /\ pc # "idle") ~> (pc = "done")

\* createPartitions: every attempt failed with NOT_CONTROLLER, each at another
\* call, and the call is rejected with the error of the last one.
C20_Witness ==
    /\ op = "createPartitions" /\ pc = "done"
    /\ attempt = MaxRetries
    /\ result = Rejected(KafkaJSProtocolError("NOT_CONTROLLER"))
    /\ \A k \in 0..MaxRetries :
          \E i \in DOMAIN ioLog :
              ioLog[i].attempt = k /\ ioLog[i].outcome = "NOT_CONTROLLER"
    /\ ioLog[Len(ioLog)].call = "broker.createPartitions"
    /\ \E i \in DOMAIN ioLog :
          ioLog[i].call = "refreshMetadata" /\ ioLog[i].outcome = "NOT_CONTROLLER"

(***************************************************************************)
(* C21: listGroups is a fan-out over the broker pool.                      *)
(***************************************************************************)
LgCalls(call) == SelectSeq(lgLog, LAMBDA e : e.call = call)

RECURSIVE ConcatAll(_)
ConcatAll(lists) ==
    IF lists = <<>> THEN <<>> ELSE Head(lists) \o ConcatAll(Tail(lists))

\* C21: listGroups refreshes the metadata once, first, and then queries the
\* brokers of the pool in iteration order, none twice; when it resolves every
\* broker of the pool was queried once and the groups returned are the
\* concatenation of what the brokers answered, in that order, nothing dropped
\* or deduplicated; a call that fails is the last one made and the call is
\* rejected with its error.
C21_ListGroupsFanOut ==
    op = "listGroups" =>
        /\ Len(LgCalls("refreshMetadata")) <= 1
        /\ lgLog # <<>> => lgLog[1].call = "refreshMetadata"
        /\ Len(LgCalls("broker.listGroups")) <= Cardinality(brokerPool)
        /\ \A i \in DOMAIN LgCalls("broker.listGroups") :
                LgCalls("broker.listGroups")[i].node = KeysInOrder(brokerPool)[i]
        /\ result.status = "resolved" =>
                /\ Len(LgCalls("broker.listGroups")) = Cardinality(brokerPool)
                /\ \A i \in DOMAIN lgLog : lgLog[i].outcome = "ok"
                /\ Len(lgResponses) = Cardinality(brokerPool)
                /\ groupsAcc = ConcatAll(lgResponses)
        /\ \A i \in DOMAIN lgLog :
                lgLog[i].outcome # "ok" =>
                    /\ i = Len(lgLog)
                    /\ result = Rejected(KafkaJSProtocolError(lgLog[i].outcome))
        /\ result.status = "rejected" =>
                lgLog # <<>> /\ lgLog[Len(lgLog)].outcome # "ok"

\* Two brokers answered and a group is in both answers.
C21_Witness ==
    /\ op = "listGroups"
    /\ result.status = "resolved"
    /\ Cardinality(brokerPool) = 2
    /\ Len(groupsAcc) > Cardinality(SeqToSet(groupsAcc))

(***************************************************************************)
(* C22: fetchOffsets is single-shot.                                       *)
(***************************************************************************)
IoCalls(call) == SelectSeq(ioLog, LAMBDA e : e.call = call)

FetchOffsetsCallNames ==
    {"addTargetTopic", "refreshMetadataIfNecessary", "findGroupCoordinator",
     "broker.offsetFetch"}

FetchOffsetsOutcomesOk == {"ok", "refreshed", "fresh"}

\* The entry of the topic in the `responses` of the call.
ResponseOfTopic ==
    foResponse[CHOOSE i \in DOMAIN foResponse : foResponse[i].topic = foInput.topic]

AbsentOrEmpty(metadata) == metadata.type = "undefined" \/ metadata.text = ""

\* C22: fetchOffsets makes each of its calls at most once and in one attempt;
\* offsetFetch is asked for the requested topic only, with every partition of
\* the topic once; a call that fails is the last call and the call is rejected
\* with its error; a call that resolves has made one offsetFetch and returns
\* one entry per partition entry of the topic's response, with its partition
\* and offset, and with metadata null when the response metadata is absent or
\* empty and the response metadata otherwise.
C22_FetchOffsetsSingleShot ==
    op = "fetchOffsets" =>
        /\ attempt = 0
        /\ \A name \in FetchOffsetsCallNames : Len(IoCalls(name)) <= 1
        /\ \A i \in DOMAIN ioLog :
                ioLog[i].outcome \notin FetchOffsetsOutcomesOk =>
                    /\ i = Len(ioLog)
                    /\ result = Rejected(KafkaJSProtocolError(ioLog[i].outcome))
        /\ IoCalls("broker.offsetFetch") # <<>> =>
                /\ Len(foRequest.topics) = 1
                /\ foRequest.groupId = foInput.groupId
                /\ foRequest.topics[1].topic = foInput.topic
                /\ Len(foRequest.topics[1].partitions) = Len(foPartitions)
                /\ {foRequest.topics[1].partitions[i].partition :
                        i \in DOMAIN foRequest.topics[1].partitions}
                        = 0..(Len(foPartitions) - 1)
        /\ result.status = "resolved" =>
                /\ Len(IoCalls("broker.offsetFetch")) = 1
                /\ \A i \in DOMAIN ioLog : ioLog[i].outcome \in FetchOffsetsOutcomesOk
                /\ Len(foReturned) = Len(ResponseOfTopic.partitions)
                /\ \A k \in DOMAIN foReturned :
                        /\ foReturned[k].partition = ResponseOfTopic.partitions[k].partition
                        /\ foReturned[k].offset = ResponseOfTopic.partitions[k].offset
                        /\ foReturned[k].metadata =
                                IF AbsentOrEmpty(ResponseOfTopic.partitions[k].metadata)
                                THEN Null
                                ELSE ResponseOfTopic.partitions[k].metadata

\* An answer for two partitions, one with empty metadata and one with a text.
C22_Witness ==
    /\ op = "fetchOffsets"
    /\ result.status = "resolved"
    /\ Len(foReturned) = 2
    /\ \E k \in DOMAIN foReturned :
            /\ ResponseOfTopic.partitions[k].metadata = [type |-> "string", text |-> ""]
            /\ foReturned[k].metadata = Null
    /\ \E k \in DOMAIN foReturned : foReturned[k].metadata.text = "meta"

(***************************************************************************)
(* C23: deleteGroups and the empty array.                                  *)
(***************************************************************************)
\* groupIds is not an array, is an empty array, or holds an id that is not a
\* string.
NotNonEmptyArrayOfStrings(g) ==
    \/ g.kind # "array"
    \/ g.items = <<>>
    \/ NonStringGroupId \in SeqToSet(g.items)

\* C23: deleteGroups called with something else than a non-empty array of
\* strings, an empty array included, is rejected with a validation error
\* before any call on the cluster or on a broker.
C23_EmptyGroupIdsRejected ==
    (op = "deleteGroups" /\ NotNonEmptyArrayOfStrings(groupIds)) =>
        /\ pc = "done"
        /\ result.status = "rejected"
        /\ result.error.name = "KafkaJSNonRetriableError"
        /\ attempt = 0
        /\ NoCollaboratorCall

(***************************************************************************)
(* C24: the list of the aggregate error of deleteGroups.                   *)
(***************************************************************************)
RejectedWithDeleteGroupsError ==
    /\ op = "deleteGroups" /\ pc = "done"
    /\ result.status = "rejected"
    /\ result.error.name = "KafkaJSDeleteGroupsError"

\* C24: the list of the aggregate error deleteGroups rejects with holds the
\* ids the call still had to delete in its last attempt, each once and each
\* with an errorCode other than 0, and no id of a group a broker has answered
\* with errorCode 0 in that or an earlier attempt of the call.
C24_AggregateErrorListsLastFailures ==
    RejectedWithDeleteGroupsError =>
        /\ result.error.groups # <<>>
        /\ GroupIdsOf(result.error.groups) = clonedGroupIds
        /\ NoRepeat(GroupIdsOf(result.error.groups))
        /\ \A i \in DOMAIN result.error.groups :
                /\ result.error.groups[i].errorCode # 0
                /\ result.error.groups[i].groupId \notin okAnswered

(***************************************************************************)
(* C25: run, pause and seek in setOffsets.                                 *)
(***************************************************************************)
CallsAt(call) == {i \in DOMAIN consumerLog : consumerLog[i].call = call}

\* C25: in setOffsets consumer.run is invoked only after consumer.pause and
\* after the consumer.seek of every requested partition, and no FETCH event is
\* handled (no consumer.stop is called) before them.
C25_RunInvokedAfterPauseAndSeek ==
    op \in {"setOffsets", "resetOffsets"} =>
        /\ \A i \in CallsAt("run") :
              /\ CallsAt("pause") # {}
              /\ \A j \in CallsAt("pause") \cup CallsAt("seek") : j < i
        /\ \A i \in CallsAt("stop") :
              \A j \in CallsAt("pause") \cup CallsAt("seek") : j < i

(***************************************************************************)
(* C26: entries with the same topic.                                       *)
(***************************************************************************)
\* The array given to createTopics or createPartitions.
EntriesGiven == IF op = "createTopics" THEN topicsInput ELSE cpInput

SameTopicTwice(items) ==
    \E i, j \in DOMAIN items : i # j /\ items[i] = items[j]

AllStrings(items) == \A i \in DOMAIN items : items[i] # NonStringTopic

RejectedByValidation ==
    /\ pc = "done"
    /\ result.status = "rejected"
    /\ result.error.name = "KafkaJSNonRetriableError"
    /\ attempt = 0
    /\ ioLog = <<>>

\* C26: createTopics and createPartitions reject an array in which two entries
\* have the same topic, wherever the two entries are, before any call on the
\* cluster; createPartitions rejects the empty array as well; an array of
\* entries with distinct string topics (not empty for createPartitions) is
\* not rejected by the validation: the first attempt starts.
C26_SameTopicTwiceRejected ==
    (op \in {"createTopics", "createPartitions"} /\ EntriesGiven.kind = "array") =>
        LET items == EntriesGiven.items
        IN  /\ SameTopicTwice(items) =>
                /\ RejectedByValidation
                /\ AllStrings(items) =>
                      result.error.message =
                          (IF op = "createTopics"
                           THEN "Invalid topics array, it cannot have multiple entries for the same topic"
                           ELSE "Invalid topic partitions array, it cannot have multiple entries for the same topic")
            /\ (op = "createPartitions" /\ items = <<>>) =>
                /\ RejectedByValidation
                /\ result.error.message = "Empty topic partitions array"
            /\ ( /\ ~SameTopicTwice(items)
                 /\ AllStrings(items)
                 /\ op = "createPartitions" => items # <<>> ) =>
                /\ ~RejectedByValidation
                /\ ioLog = <<>> => pc = "refresh" /\ result = Pending

\* createTopics has rejected three entries of which the first and the last
\* have the same topic.
C26_Witness ==
    /\ op = "createTopics" /\ pc = "done"
    /\ Len(topicsInput.items) = 3
    /\ topicsInput.items[1] = topicsInput.items[3]
    /\ topicsInput.items[1] # topicsInput.items[2]
    /\ AllStrings(topicsInput.items)
    /\ RejectedByValidation

(***************************************************************************)
(* C27: resetOffsets.                                                      *)
(***************************************************************************)
\* resetOffsets has looked the partitions up and called setOffsets.
ResetOffsetsDelegated == op = "resetOffsets" /\ offInput.partitions.kind = "array"

\* C27: the list resetOffsets gives to setOffsets has one entry for every
\* partition of the topic, none twice, each with the earliest sentinel when
\* `earliest` is true and the latest sentinel when it is false or left out;
\* the call is then a setOffsets call with that list: an empty list is
\* invalid, a group that is not Empty or Dead is refused before consumer.run,
\* the seeks made are those of the list, and the call resolves only after a
\* FETCH event and a consumer.stop() that completed.
C27_ResetOffsetsDelegates ==
    ResetOffsetsDelegated =>
        LET items == offInput.partitions.items
        IN  /\ Len(items) = Len(foPartitions)
            /\ {items[i].partition : i \in DOMAIN items} = 0..(Len(foPartitions) - 1)
            /\ \A i, j \in DOMAIN items : items[i].partition = items[j].partition => i = j
            /\ \A i \in DOMAIN items :
                  items[i].offset =
                      (IF earliest = "true" THEN EarliestOffset ELSE LatestOffset)
            /\ items = <<>> =>
                  /\ result = Rejected(KafkaJSNonRetriableError("Invalid partitions", 0))
                  /\ consumerLog = <<>>
            /\ description \notin {"", "Empty", "Dead"} =>
                  /\ result.status = "rejected"
                  /\ result.error.message =
                        "The consumer group must have no running instances, current state: "
                            \o description
                  /\ CallsAt("run") = {}
            /\ CallsAt("run") # {} => SeeksMade = SeekCalls(items)
            /\ result.status = "resolved" =>
                  /\ fetches >= 1
                  /\ \E i \in DOMAIN settlements :
                        settlements[i] = Settlement("stop", Resolved("undefined"))
                  /\ committed = {<<items[i].partition, items[i].offset>> : i \in DOMAIN items}

\* resetOffsets without `earliest` resolved for a topic of two partitions.
C27_Witness ==
    /\ op = "resetOffsets" /\ result.status = "resolved"
    /\ earliest = "undefined"
    /\ committed = {<<0, LatestOffset>>, <<1, LatestOffset>>}

(***************************************************************************)
(* C28: FETCH events and consumer.stop().                                  *)
(***************************************************************************)
\* C28: within one setOffsets call consumer.stop() is invoked at most once,
\* on the first FETCH event: a FETCH event emitted afterwards, before the stop
\* has completed, does not invoke it again.
C28_StopInvokedAtMostOnce ==
    op \in {"setOffsets", "resetOffsets"} =>
        /\ Cardinality(CallsAt("stop")) <= 1
        /\ fetches >= 1 => Cardinality(CallsAt("stop")) = 1
        /\ stopsPending <= 1

(***************************************************************************)
(* C29: the consumer when setOffsets settles.                              *)
(***************************************************************************)
\* The executor has called consumer.run.
RunLoopStarted == op \in {"setOffsets", "resetOffsets"} /\ CallsAt("run") # {}

\* C29: whenever a setOffsets call that has started the run loop of its
\* consumer is settled, resolved or rejected, the consumer is stopped.
C29_SettledOnlyWithConsumerStopped ==
    (RunLoopStarted /\ result.status # "pending") => consumerState = "stopped"

(***************************************************************************)
(* C30: cluster.targetTopics when deleteTopics rejects.                    *)
(***************************************************************************)
\* C30: whenever a deleteTopics call is rejected, cluster.targetTopics is the
\* set it was before the call.
C30_RejectedLeavesTargetTopics ==
    (op = "deleteTopics" /\ pc = "done" /\ result.status = "rejected") =>
        targetTopics = targetBefore

(***************************************************************************)
(* C31: createTopics after broker.createTopics has succeeded.              *)
(***************************************************************************)
\* C31: within one createTopics call, no broker.createTopics request is made
\* after one that succeeded, and a call in which broker.createTopics has
\* succeeded never resolves false.
C31_NoCreateAfterSuccess ==
    op = "createTopics" =>
        /\ \A i \in CreateOks : \A j \in CreateCalls : j <= i
        /\ CreateOks # {} => result # Resolved("false")

====
